---- MODULE Spec2Model ----
(***************************************************************************)
(* A state-machine model of ndownloader:                                   *)
(*   - src/src/cache.rs    Cache<T>: TTL cache with a JSON snapshot file   *)
(*   - src/src/scanner.rs  VideoScanner: cached channel listing, local     *)
(*                         duplicate check, storage-root selection        *)
(*   - src/src/ui/mod.rs   NDownloaderApp: download dialog, submission,   *)
(*                         completion polling, cancel                     *)
(* The download queue (crate::downloader_queue) is not part of the source  *)
(* files at hand; its operations are modelled from spec.md section 4.3.    *)
(*                                                                         *)
(* Time is a monotonic clock `now` counted in ticks.  Each component has   *)
(* its own specification (SpecCache, SpecScan, SpecLocal, SpecUI): the     *)
(* variables of the other components keep their initial values there.      *)
(* SpecStores runs the two caches side by side over restarts, with one    *)
(* thread; SpecConcurrent runs them with two threads in one run of the     *)
(* process; SpecUrls scans under every way of writing a channel URL;       *)
(* SpecDownloads is the downloads of a channel whose list is on screen.    *)
(***************************************************************************)
EXTENDS Integers, Sequences, FiniteSets, TLC

VARIABLES
    component,      \* the component this behaviour exercises
    now,            \* monotonic clock (std::time::Instant), in ticks
    instant_floor,  \* the earliest Instant the platform can represent, in ticks
                    \* from the origin of the monotonic clock
    \* ---- cache.rs: Cache<T>
    cache_data,     \* Cache.data: key -> [value, timestamp]
    cache_file,     \* content of Cache.cache_file on disk
    set_pc,         \* per thread: position inside Cache::set
    cache_ret,      \* what the Cache call that has just returned gave its caller
    hist_set,       \* history: per key, the last insert made by this instance
    hist_written,   \* history: Cache.data as it was when the snapshot on disk was written
    hist_new,       \* history: what Cache::new loaded and when, and what was set before it
    \* ---- scanner.rs: VideoScanner::scan_channel_videos
    scan_cache,     \* VideoScanner.cache: normalized url -> [videos, timestamp]
    scan_file,      \* content of VIDEOS_CACHE_FILE on disk
    calls,          \* per caller: its scan_channel_videos call, while yt-dlp runs
    scan_ret,       \* what the scanner call that has just returned gave its caller
    hist_store,     \* history: per url, the last list a call of this process stored
    hist_saved,     \* history: VideoScanner.cache as it was when the snapshot on disk was written
    hist_fetched,   \* history: per url, when yt-dlp last listed it, in this run or an earlier one
    \* ---- scanner.rs: is_video_downloaded, find_best_storage_path
    root_exists,    \* per storage root: whether the path exists
    chan_dir,       \* per storage root: the entries of root/channel_name, in read_dir order
    file_durations_cache,  \* VideoScanner.file_durations_cache: path -> duration
    local_ret,      \* what the call that has just returned gave its caller
    \* ---- ui/mod.rs: NDownloaderApp, and the download queue it drives
    channels,            \* NDownloaderApp.channels: sequence of [name, platform, url]
    channels_file,       \* the file /tmp/ndownloader_channels.json
    selected_channel,    \* NDownloaderApp.selected_channel
    loading,             \* NDownloaderApp.loading
    videos,              \* NDownloaderApp.videos: sequence of [url, status]
    download_input,      \* NDownloaderApp.download_input: the text typed in the dialog
    download_video,      \* NDownloaderApp.download_video
    downloading_videos,  \* NDownloaderApp.downloading_videos
    scans,               \* the scan tasks spawned by select_channel, not yet completed:
                         \* [channel_name, current], current (history) telling
                         \* that the selection the scan was made for still stands
    monitors,            \* the tasks spawned by confirm_download, not yet ended
    tasks,               \* DownloadQueue: the tasks it tracks, with their subprocesses
    queue_progress,      \* DownloadQueue: the progress field of each task, in tenths
    ui_thread_io,        \* the filesystem and subprocess calls the step just taken
                         \* made inside a handler of NDownloaderApp or a closure
                         \* of this.update, which run on the thread of the window
    ui_event             \* what the step just taken did: a cancellation, the
                         \* answer of add_download, the notification shown

cacheVars == <<cache_data, cache_file, set_pc, cache_ret, hist_set, hist_written, hist_new>>

scanVars == <<scan_cache, scan_file, calls, scan_ret, hist_store, hist_saved, hist_fetched>>

localVars == <<root_exists, chan_dir, file_durations_cache, local_ret>>

uiVars == <<channels, channels_file, selected_channel, loading, videos, download_input, download_video,
            downloading_videos, scans, monitors, tasks, queue_progress, ui_thread_io,
            ui_event>>

vars == <<component, now, instant_floor, cacheVars, scanVars, localVars, uiVars>>

(***************************************************************************)
(* Option<T>                                                               *)
(***************************************************************************)
None == [some |-> FALSE]

Some(v) == [some |-> TRUE, val |-> v]

(***************************************************************************)
(* Bounds of the model                                                     *)
(***************************************************************************)
\* Cache::new(cache_file, ttl): the ttl argument, in ticks
TTL == 2

\* the clock of SpecCache stops here
MaxTime == 3

KEYS == {"k1", "k2"}

VALUES == {"v1", "v2"}

THREADS == {"t1", "t2"}

(***************************************************************************)
(* cache.rs                                                                *)
(***************************************************************************)
\* the snapshot file: absent, unparsable, or a JSON object (a set of key/value pairs)
FileMissing == [kind |-> "missing"]

FileCorrupt == [kind |-> "corrupt"]

\* a JSON object of which the entries `pairs` are well formed and one more entry
\* is not a value of the entry type
FilePartlyMalformed(pairs) == [kind |-> "bad_entry", pairs |-> pairs]

FileJson(pairs) == [kind |-> "json", pairs |-> pairs]

\* a save_to_disk that writes one entry of the map only
SerializeMapOneEntry(data) ==
    IF DOMAIN data = {}
    THEN {}
    ELSE LET k == CHOOSE k \in DOMAIN data : TRUE IN {<<k, data[k].value>>}

\* save_to_disk, lines 76-81: the map without its timestamps, as a JSON object
SerializeMap(data) == {<<k, data[k].value>> : k \in DOMAIN data}

\* a load_from_disk that reads another path: it never finds the snapshot
LoadFromDiskWrongPath(file, t) == None

\* a load_from_disk that stamps the loaded entries one tick in the past
LoadFromDiskStampedEarlier(file, t) ==
    IF file.kind = "json"
    THEN Some([k \in {p[1] : p \in file.pairs} |->
                 [value |-> (CHOOSE p \in file.pairs : p[1] = k)[2], timestamp |-> t - 1]])
    ELSE None

\* a load_from_disk that keeps the well-formed entries of a file it cannot parse
LoadFromDiskSkipBad(file, t) ==
    IF file.kind \in {"json", "bad_entry"}
    THEN Some([k \in {p[1] : p \in file.pairs} |->
                 [value |-> (CHOOSE p \in file.pairs : p[1] = k)[2], timestamp |-> t]])
    ELSE None

\* load_from_disk: read_to_string and serde_json::from_str fail on a missing or
\* unparsable file; every parsed pair gets timestamp Instant::now()
LoadFromDisk(file, t) ==
    IF file.kind = "json"
    THEN Some([k \in {p[1] : p \in file.pairs} |->
                 [value |-> (CHOOSE p \in file.pairs : p[1] = k)[2], timestamp |-> t]])
    ELSE None

\* Result::unwrap_or_default on the loaded map
UnwrapOrDefault(r) == IF r.some THEN r.val ELSE << >>

\* a get whose entry lives one tick too long
CacheLookupInclusive(data, key, t) ==
    IF key \in DOMAIN data /\ t - data[key].timestamp <= TTL
    THEN Some(data[key].value)
    ELSE None

\* Cache::get: the entry's value while timestamp.elapsed() < default_ttl
CacheLookup(data, key, t) ==
    IF key \in DOMAIN data /\ t - data[key].timestamp < TTL
    THEN Some(data[key].value)
    ELSE None

\* an insert that overwrites the value but keeps the timestamp of the entry it replaces
CacheInsertKeepTimestamp(data, key, value, t) ==
    [k \in DOMAIN data \cup {key} |->
        IF k = key
        THEN [value |-> value,
              timestamp |-> IF key \in DOMAIN data THEN data[key].timestamp ELSE t]
        ELSE data[k]]

\* an insert a reader can see half done: the timestamp of the new entry is in
\* place, the value still that of the entry it replaces
CacheInsertTorn(data, key, value, t) ==
    [k \in DOMAIN data \cup {key} |->
        IF k = key
        THEN [value |-> IF key \in DOMAIN data THEN data[key].value ELSE value,
              timestamp |-> t]
        ELSE data[k]]

\* HashMap::insert with timestamp Instant::now()
CacheInsert(data, key, value, t) ==
    [k \in DOMAIN data \cup {key} |->
        IF k = key THEN [value |-> value, timestamp |-> t] ELSE data[k]]

\* what a call gave its caller; it is forgotten as soon as anything else happens
NoReturn == [op |-> "none"]

\* the values of a map, without the timestamps
ValuesOf(data) == [k \in DOMAIN data |-> data[k].value]

\* a step of the cache leaves the other components alone
CacheFrame == component = "cache" /\ UNCHANGED <<component, instant_floor, scanVars, localVars, uiVars>>

\* Cache::new: a new instance on the same file (the process was restarted)
CacheNew ==
    /\ cache_data' = UnwrapOrDefault(LoadFromDisk(cache_file, now))
    /\ set_pc' = [t \in THREADS |-> "idle"]
    /\ cache_ret' = [op |-> "new"]
    /\ hist_set' = [k \in KEYS |-> None]
    /\ hist_new' = [at |-> now,
                    loaded |-> ValuesOf(cache_data'),
                    expired |-> {k \in DOMAIN cache_data : now - cache_data[k].timestamp >= TTL},
                    stale |-> {k \in DOMAIN cache_data' :
                                 IF hist_set[k].some
                                 THEN hist_set[k].val.value # cache_data'[k].value
                                 ELSE k \in hist_new.stale}]
    /\ UNCHANGED <<now, cache_file, hist_written>>
    /\ CacheFrame

\* a get that evicts the entry it finds expired
CacheGetEvicting(t, key) ==
    /\ set_pc[t] = "idle"
    /\ cache_ret' = [op |-> "get", key |-> key, res |-> CacheLookup(cache_data, key, now)]
    /\ cache_data' = IF key \in DOMAIN cache_data /\ ~CacheLookup(cache_data, key, now).some
                     THEN [k \in DOMAIN cache_data \ {key} |-> cache_data[k]]
                     ELSE cache_data
    /\ UNCHANGED <<now, cache_file, set_pc, hist_set, hist_written, hist_new>>
    /\ CacheFrame

\* Cache::get, under the read lock
CacheGet(t, key) ==
    /\ set_pc[t] = "idle"
    /\ cache_ret' = [op |-> "get", key |-> key, res |-> CacheLookup(cache_data, key, now)]
    /\ UNCHANGED <<now, cache_data, cache_file, set_pc, hist_set, hist_written, hist_new>>
    /\ CacheFrame

\* Cache::set, lines 43-51: the insert under the write lock
CacheSetInsert(t, key, value) ==
    /\ set_pc[t] = "idle"
    /\ cache_data' = CacheInsert(cache_data, key, value, now)
    /\ hist_set' = [hist_set EXCEPT ![key] = Some([value |-> value, at |-> now])]
    /\ set_pc' = [set_pc EXCEPT ![t] = "save"]
    /\ cache_ret' = NoReturn
    /\ UNCHANGED <<now, cache_file, hist_written, hist_new>>
    /\ CacheFrame

\* a set that gives its insert up when the snapshot cannot be written
CacheSetSaveRollback(t, outcome) ==
    /\ set_pc[t] = "save"
    /\ set_pc' = [set_pc EXCEPT ![t] = "idle"]
    /\ cache_ret' = [op |-> "set", outcome |-> outcome]
    /\ CASE outcome = "written" ->
              /\ cache_file' = FileJson(SerializeMap(cache_data))
              /\ hist_written' = Some(ValuesOf(cache_data))
              /\ UNCHANGED cache_data
         [] outcome = "not_opened" ->
              /\ cache_data' = << >>
              /\ UNCHANGED <<cache_file, hist_written>>
         [] outcome = "cut_short" ->
              /\ cache_data' = << >>
              /\ cache_file' = FileCorrupt
              /\ hist_written' = None
    /\ UNCHANGED <<now, hist_set, hist_new>>
    /\ CacheFrame

\* Cache::set, lines 53-55: save_to_disk under the read lock; std::fs::write
\* either writes the whole snapshot, or fails leaving the file as it was
\* (cannot open) or cut short (the disk filled up); a failure is only logged
CacheSetSave(t, outcome) ==
    /\ set_pc[t] = "save"
    /\ set_pc' = [set_pc EXCEPT ![t] = "idle"]
    /\ cache_ret' = [op |-> "set", outcome |-> outcome]
    /\ CASE outcome = "written" ->
              /\ cache_file' = FileJson(SerializeMap(cache_data))
              /\ hist_written' = Some(ValuesOf(cache_data))
         [] outcome = "not_opened" ->
              UNCHANGED <<cache_file, hist_written>>
         [] outcome = "cut_short" ->
              /\ cache_file' = FileCorrupt
              /\ hist_written' = None
    /\ UNCHANGED <<now, cache_data, hist_set, hist_new>>
    /\ CacheFrame

\* the clock advances
CacheTick ==
    /\ now < MaxTime
    /\ now' = now + 1
    /\ cache_ret' = NoReturn
    /\ UNCHANGED <<cache_data, cache_file, set_pc, hist_set, hist_written, hist_new>>
    /\ CacheFrame

\* the snapshot files a first instance may find
CACHE_FILES_AT_START ==
    {FileMissing, FileCorrupt, FilePartlyMalformed({<<"k1", "v1">>})}

\* the state after Cache::new on `file`
CacheInitOn(file) ==
    /\ cache_data = UnwrapOrDefault(LoadFromDisk(file, 0))
    /\ cache_file = file
    /\ set_pc = [t \in THREADS |-> "idle"]
    /\ cache_ret = [op |-> "new"]
    /\ hist_set = [k \in KEYS |-> None]
    /\ hist_written = None
    /\ hist_new = [at |-> 0, loaded |-> ValuesOf(cache_data), expired |-> {}, stale |-> {}]

CacheInit == CacheInitOn(FileMissing)

CacheNext ==
    \/ CacheNew
    \/ \E t \in THREADS, k \in KEYS : CacheGet(t, k)
    \/ \E t \in THREADS, k \in KEYS, v \in VALUES : CacheSetInsert(t, k, v)
    \/ \E t \in THREADS, o \in {"written", "not_opened", "cut_short"} : CacheSetSave(t, o)
    \/ CacheTick

(***************************************************************************)
(* scanner.rs: scan_channel_videos                                         *)
(***************************************************************************)
\* clock ticks per second: Instant is finer than the whole seconds of the snapshot
TICKS_PER_SEC == 2

\* VideoScanner.cache_duration, in seconds
CACHE_DURATION == 300

CACHE_TICKS == CACHE_DURATION * TICKS_PER_SEC

\* the instants at which the scanner is observed
SCAN_INSTANTS == {0, 1, CACHE_TICKS - 1, CACHE_TICKS}

CALLERS == {"c1", "c2"}

\* a URL is a sequence of pieces; "/" and the words between are pieces
RAW_URLS ==
    { <<"twitch.tv", "/", "chan">>,
      <<"twitch.tv", "/", "chan", "/">>,
      <<"twitch.tv", "/", "chan", "/", "videos">>,
      <<"youtube.com", "/", "@chan">> }

\* str::contains
Contains(s, pat) ==
    \E i \in 1..(Len(s) - Len(pat) + 1) : SubSeq(s, i, i + Len(pat) - 1) = pat

RECURSIVE TrimEndSlashes(_)
\* str::trim_end_matches('/')
TrimEndSlashes(s) ==
    IF Len(s) > 0 /\ s[Len(s)] = "/" THEN TrimEndSlashes(SubSeq(s, 1, Len(s) - 1)) ELSE s

\* a normalization that appends "/videos" without removing the trailing slashes
NormalizeUrlKeepSlashes(channel_url) ==
    IF Contains(channel_url, <<"twitch.tv">>) /\ ~Contains(channel_url, <<"/", "videos">>)
    THEN channel_url \o <<"/", "videos">>
    ELSE channel_url

\* scan_channel_videos, lines 92-96
NormalizeUrl(channel_url) ==
    IF Contains(channel_url, <<"twitch.tv">>) /\ ~Contains(channel_url, <<"/", "videos">>)
    THEN TrimEndSlashes(channel_url) \o <<"/", "videos">>
    ELSE channel_url

\* more ways of writing the URL of the Twitch channel
URL_FORMS ==
    RAW_URLS \cup { <<"twitch.tv", "/", "chan", "/", "/">>,
                    <<"twitch.tv", "/", "chan", "/", "videos", "/">> }

NORMALIZED_URLS == {NormalizeUrl(u) : u \in URL_FORMS}

\* a line of yt-dlp's output: a JSON object of a video, something else, or blank
VIDEO_LINES == {[id |-> "a"], [id |-> "b"]}

Malformed == [malformed |-> TRUE]

Blank == [blank |-> TRUE]

\* what yt-dlp may write to its standard output
OUTPUTS ==
    { << >>,
      <<[id |-> "a"]>>,
      <<Malformed, [id |-> "a"]>>,
      <<[id |-> "b"], Blank, Malformed, [id |-> "a"]>> }

RECURSIVE ParseLinesStopAtBad(_)
\* a parser that gives up at the first line that is not a video
ParseLinesStopAtBad(lines) ==
    IF lines = << >> \/ Head(lines) \notin VIDEO_LINES THEN << >>
    ELSE <<Head(lines)>> \o ParseLinesStopAtBad(Tail(lines))

RECURSIVE ParseLines(_)
\* scan_channel_videos, lines 130-147: blank lines are skipped, a line that does
\* not parse as VideoMetadata is logged and skipped
ParseLines(lines) ==
    IF lines = << >> THEN << >>
    ELSE LET line == Head(lines)
             rest == ParseLines(Tail(lines))
         IN  IF line \in VIDEO_LINES THEN <<line>> \o rest ELSE rest

\* a scan that never consults the cache
ScanLookupNever(cache, url, t) == None

\* the cache check of lines 101-109
ScanLookup(cache, url, t) ==
    IF url \in DOMAIN cache /\ t - cache[url].timestamp < CACHE_TICKS
    THEN Some(cache[url].videos)
    ELSE None

\* an insert that does not store an empty list
ScanInsertSkipEmpty(cache, url, list, t) ==
    IF list = << >> THEN cache
    ELSE [u \in DOMAIN cache \cup {url} |->
            IF u = url THEN [videos |-> list, timestamp |-> t] ELSE cache[u]]

\* lines 153-157: HashMap::insert under the normalized url
ScanInsert(cache, url, list, t) ==
    [u \in DOMAIN cache \cup {url} |->
        IF u = url THEN [videos |-> list, timestamp |-> t] ELSE cache[u]]

\* instant_serde::serialize: instant.elapsed().as_secs(), whole seconds
SerializeInstant(timestamp, t) == (t - timestamp) \div TICKS_PER_SEC

\* instant_serde::deserialize: Instant::now() - Duration::from_secs(elapsed)
DeserializeInstant(elapsed, t) == t - elapsed * TICKS_PER_SEC

\* the persisted elapsed seconds are a u64; its width, scaled down
ELAPSED_BITS == 3

\* u64::MAX at that width
MaxElapsed == 2^ELAPSED_BITS - 1

\* an Instant that counts seconds in a signed integer of that width (the
\* timespec of Unix) reaches this far before the origin of the clock
SIGNED_FLOOR == -(2^(ELAPSED_BITS - 1)) * TICKS_PER_SEC

\* an Instant that counts from the origin of the clock in an unsigned integer
\* (the tick counters of macOS and Windows) starts at the origin
INSTANT_FLOORS == {0, SIGNED_FLOOR}

\* Instant - Duration: checked_sub_duration, whose None makes the operator panic
\* with "overflow when subtracting duration from instant"
CheckedSubDuration(t, elapsed, floor) ==
    LET r == t - elapsed * TICKS_PER_SEC
    IN  IF r >= floor THEN Some(r) ELSE None

\* save_cache: the map as a JSON object url -> {videos, timestamp}
SerializeScanCache(cache, t) ==
    {<<u, cache[u].videos, SerializeInstant(cache[u].timestamp, t)>> : u \in DOMAIN cache}

\* load_cache: a missing or unparsable file gives the empty map
LoadCache(file, t) ==
    IF file.kind = "json"
    THEN [u \in {p[1] : p \in file.pairs} |->
            LET p == CHOOSE q \in file.pairs : q[1] = u
            IN  [videos |-> p[2], timestamp |-> DeserializeInstant(p[3], t)]]
    ELSE << >>

\* save_cache: the result of std::fs::write is dropped
SaveCache(file, cache, outcome, t) ==
    CASE outcome = "written" -> FileJson(SerializeScanCache(cache, t))
      [] outcome = "not_opened" -> file
      [] outcome = "cut_short" -> FileCorrupt

VideosOf(cache) == [u \in DOMAIN cache |-> cache[u].videos]

\* history: the list stored under url less than cache_duration ago, if any
FreshStore(url, t) ==
    IF hist_store[url].some /\ t - hist_store[url].val.at < CACHE_TICKS
    THEN Some(hist_store[url].val.videos)
    ELSE None

Idle == [pc |-> "idle"]

ScanFrame == component = "scan" /\ UNCHANGED <<component, instant_floor, cacheVars, localVars, uiVars>>

\* VideoScanner::new: the process starts again and loads the snapshot
ScanNew ==
    /\ scan_cache' = LoadCache(scan_file, now)
    /\ calls' = [c \in CALLERS |-> Idle]
    /\ scan_ret' = [op |-> "new"]
    /\ hist_store' = [u \in NORMALIZED_URLS |-> None]
    /\ UNCHANGED <<now, scan_file, hist_saved, hist_fetched>>
    /\ ScanFrame

\* scan_channel_videos, lines 88-122: normalize, look the cache up, and either
\* return the cached list or start yt-dlp and wait for it
ScanStart(c, channel_url) ==
    /\ calls[c].pc = "idle"
    /\ LET url == NormalizeUrl(channel_url)
           hit == ScanLookup(scan_cache, url, now)
       IN  IF hit.some
           THEN /\ scan_ret' = [op |-> "scan", url |-> url, invoked |-> FALSE,
                                res |-> [ok |-> TRUE, videos |-> hit.val],
                                fresh |-> FreshStore(url, now),
                                channel_url |-> channel_url]
                /\ UNCHANGED calls
           ELSE /\ calls' = [calls EXCEPT ![c] =
                       [pc |-> "running", url |-> url, at |-> now,
                        fresh |-> FreshStore(url, now)]]
                /\ scan_ret' = NoReturn
    /\ UNCHANGED <<now, scan_cache, scan_file, hist_store, hist_saved, hist_fetched>>
    /\ ScanFrame

\* what yt-dlp may write to its standard error: text, some of it not UTF-8
STDERRS == { <<"ERROR">>, <<"ERROR", "\\xff">> }

\* String::from_utf8_lossy: a byte that is not UTF-8 becomes U+FFFD
RECURSIVE FromUtf8Lossy(_)
FromUtf8Lossy(bytes) ==
    IF bytes = << >> THEN << >>
    ELSE <<IF Head(bytes) = "\\xff" THEN "U+FFFD" ELSE Head(bytes)>> \o FromUtf8Lossy(Tail(bytes))

\* the ways a started scan ends in an error: Command::output fails (line 122),
\* yt-dlp exits non-zero with some standard error (124-127), or exits zero with
\* a standard output that is not UTF-8 (129)
SCAN_FAILURES ==
    {[kind |-> "spawn"], [kind |-> "not_utf8"]}
       \cup {[kind |-> "exit_nonzero", stderr |-> e] : e \in STDERRS}

\* the anyhow::Error the call returns
ScanError(why) ==
    IF why.kind = "exit_nonzero"
    THEN [kind |-> "exit_nonzero", text |-> <<"yt-dlp a échoué: ">> \o FromUtf8Lossy(why.stderr)]
    ELSE [kind |-> why.kind]

\* a failing scan that refreshes the timestamp of the entry of its url
ScanFailRefresh(c, why) ==
    /\ calls[c].pc = "running"
    /\ calls' = [calls EXCEPT ![c] = Idle]
    /\ scan_ret' = [op |-> "scan", url |-> calls[c].url, invoked |-> TRUE,
                    res |-> [ok |-> FALSE, error |-> ScanError(why)], fresh |-> calls[c].fresh]
    /\ scan_cache' = [u \in DOMAIN scan_cache |->
                         IF u = calls[c].url
                         THEN [scan_cache[u] EXCEPT !.timestamp = now]
                         ELSE scan_cache[u]]
    /\ UNCHANGED <<now, scan_file, hist_store, hist_saved, hist_fetched>>
    /\ ScanFrame

\* scan_channel_videos, lines 122-129: yt-dlp could not be started, exited
\* non-zero, or wrote bytes that are not UTF-8: the call returns the error
ScanFail(c, why) ==
    /\ calls[c].pc = "running"
    /\ calls' = [calls EXCEPT ![c] = Idle]
    /\ scan_ret' = [op |-> "scan", url |-> calls[c].url, invoked |-> TRUE,
                    res |-> [ok |-> FALSE, error |-> ScanError(why)], fresh |-> calls[c].fresh]
    /\ UNCHANGED <<now, scan_cache, scan_file, hist_store, hist_saved, hist_fetched>>
    /\ ScanFrame

\* scan_channel_videos, lines 129-161: yt-dlp exited zero with `output`; the
\* lines are parsed, the list is stored and the snapshot rewritten
ScanOk(c, output, outcome) ==
    /\ calls[c].pc = "running"
    /\ LET parsed == ParseLines(output)
           url == calls[c].url
           cache == ScanInsert(scan_cache, url, parsed, now)
       IN  /\ scan_cache' = cache
           /\ scan_file' = SaveCache(scan_file, cache, outcome, now)
           /\ hist_saved' = CASE outcome = "written" -> Some(VideosOf(cache))
                               [] outcome = "not_opened" -> hist_saved
                               [] outcome = "cut_short" -> None
           /\ hist_store' = [hist_store EXCEPT ![url] = Some([videos |-> parsed, at |-> now])]
           /\ hist_fetched' = [hist_fetched EXCEPT ![url] = Some(now)]
           /\ scan_ret' = [op |-> "scan", url |-> url, invoked |-> TRUE,
                           res |-> [ok |-> TRUE, videos |-> parsed], fresh |-> calls[c].fresh,
                           output |-> output, saved |-> outcome]
    /\ calls' = [calls EXCEPT ![c] = Idle]
    /\ UNCHANGED now
    /\ ScanFrame

\* the clock advances to a later instant
ScanTick ==
    /\ \E t \in SCAN_INSTANTS : t > now /\ now' = t
    /\ scan_ret' = NoReturn
    /\ UNCHANGED <<scan_cache, scan_file, calls, hist_store, hist_saved, hist_fetched>>
    /\ ScanFrame

\* the snapshot files a first scanner may find
SCAN_FILES_AT_START ==
    {FileMissing,
     FilePartlyMalformed({<<NormalizeUrl(<<"twitch.tv", "/", "chan">>), <<[id |-> "a"]>>, 0>>})}

\* the state after VideoScanner::new on `file`
ScanInitOn(file) ==
    /\ scan_cache = LoadCache(file, 0)
    /\ scan_file = file
    /\ calls = [c \in CALLERS |-> Idle]
    /\ scan_ret = [op |-> "new"]
    /\ hist_store = [u \in NORMALIZED_URLS |-> None]
    /\ hist_saved = None
    /\ hist_fetched = [u \in NORMALIZED_URLS |-> None]

ScanInit == ScanInitOn(FileMissing)

\* scans of one caller under every way of writing the URL, and restarts
UrlNext ==
    \/ ScanNew
    \/ \E u \in URL_FORMS : ScanStart("c1", u)
    \/ \E out \in OUTPUTS : ScanOk("c1", out, "written")

ScanNext ==
    \/ ScanNew
    \/ \E c \in CALLERS, u \in RAW_URLS : ScanStart(c, u)
    \/ \E c \in CALLERS, why \in SCAN_FAILURES : ScanFail(c, why)
    \/ \E c \in CALLERS, out \in OUTPUTS, o \in {"written", "not_opened", "cut_short"} :
          ScanOk(c, out, o)
    \/ ScanTick

(***************************************************************************)
(* scanner.rs: VideoScanner::new on the snapshot a start finds             *)
(***************************************************************************)
\* the clock of a start stops here
MaxUptime == 4

\* load_cache, lines 75-80, with what serde_json::from_str does on the way:
\* an elapsed value that is no u64 is an Err, which unwrap_or_default turns
\* into the empty map; an elapsed value whose subtraction is not representable
\* panics inside instant_serde::deserialize, which unwrap_or_default does not
\* catch; with both in one file the order of the entries decides
LoadCacheOutcomes(file, t, floor) ==
    IF file.kind \notin {"json", "bad_entry"}
    THEN {[panicked |-> FALSE, cache |-> << >>]}
    ELSE LET rejected == {p \in file.pairs : p[3] \notin 0..MaxElapsed}
             overflowing == {p \in file.pairs \ rejected :
                               ~CheckedSubDuration(t, p[3], floor).some}
         IN  (IF overflowing # {}
              THEN {[panicked |-> TRUE, cache |-> << >>]} ELSE {})
             \cup
             (IF rejected # {} \/ file.kind = "bad_entry"
              THEN {[panicked |-> FALSE, cache |-> << >>]} ELSE {})
             \cup
             (IF overflowing = {} /\ rejected = {} /\ file.kind = "json"
              THEN {[panicked |-> FALSE, cache |-> LoadCache(file, t)]} ELSE {})

\* the snapshots a start may find: none, an unparsable one, and one entry
\* under every elapsed value of a u64 and under one that is too large for it
START_SNAPSHOTS ==
    {FileMissing, FileCorrupt}
    \cup { FileJson({<<NormalizeUrl(<<"twitch.tv", "/", "chan">>), <<[id |-> "a"]>>, e>>}) :
             e \in 0..(MaxElapsed + 1) }

StartFrame ==
    /\ component = "start"
    /\ UNCHANGED <<component, instant_floor, cacheVars, localVars, uiVars>>

\* NDownloaderApp::new calls VideoScanner::new, which loads the snapshot; a
\* panic there ends the process before its window opens
VideoScannerNew ==
    /\ scan_ret.op = "none"
    /\ \E out \in LoadCacheOutcomes(scan_file, now, instant_floor) :
          /\ scan_cache' = out.cache
          /\ scan_ret' = [op |-> "new", panicked |-> out.panicked]
    /\ UNCHANGED <<now, scan_file, calls, hist_store, hist_saved, hist_fetched>>
    /\ StartFrame

\* the process ends, by its panic or by the user
ProcessExit ==
    /\ scan_ret.op = "new"
    /\ scan_cache' = << >>
    /\ scan_ret' = NoReturn
    /\ UNCHANGED <<now, scan_file, calls, hist_store, hist_saved, hist_fetched>>
    /\ StartFrame

\* the monotonic clock advances
StartTick ==
    /\ now < MaxUptime
    /\ now' = now + 1
    /\ UNCHANGED scanVars
    /\ StartFrame

StartNext == VideoScannerNew \/ ProcessExit \/ StartTick

(***************************************************************************)
(* scanner.rs: is_video_downloaded, find_best_storage_path                 *)
(***************************************************************************)
\* VideoScanner.storage_paths, in their configured order
storage_paths == <<"/run/mount/ve_stock_1", "/run/mount/ve_stock_2", "/run/mount/ve_ext_1">>

ROOTS == 1..Len(storage_paths)

\* durations are counted in tenths of a second: the tolerance of 5.0 seconds
TOLERANCE_TENTHS == 50

\* the duration of the video looked for: 120.0 s, or unknown
TARGETS == {Some(1200), None}

\* a directory entry: a regular file that ffprobe measures, a regular file that
\* ffprobe cannot measure, or a sub-directory
File(name, d) == [name |-> name, kind |-> "file", probe |-> Some(d)]

Unreadable(name) == [name |-> name, kind |-> "file", probe |-> None]

SubDir(name) == [name |-> name, kind |-> "dir", probe |-> None]

\* what root/channel_name may hold: None when the directory does not exist
CHANNEL_DIRS ==
    { None,
      Some(<< >>),
      Some(<<File("f1", 1249)>>),
      Some(<<File("f1", 1250), File("f2", 1151)>>),
      Some(<<File("f1", 1251), SubDir("f2")>>),
      Some(<<Unreadable("f1"), File("f2", 1150), File("f3", 1249)>>) }

Abs(x) == IF x < 0 THEN -x ELSE x

\* a tolerance that lets a difference of exactly 5.0 seconds through
DurationMatchesInclusive(local_duration, target_duration) ==
    Abs(local_duration - target_duration) <= TOLERANCE_TENTHS

\* line 209: (local_duration - target_duration).abs() < 5.0
DurationMatches(local_duration, target_duration) ==
    Abs(local_duration - target_duration) < TOLERANCE_TENTHS

\* a loop without the early return: it goes on and the last match wins
MatchFoundKeepLooking(path, index, probed, rest) ==
    IF rest.found.some
    THEN rest
    ELSE [found |-> Some(path), index |-> rest.index, probed |-> rest.probed,
          read |-> rest.read]

\* lines 209-212: return Some(path_str); `rest`, what the search would do after
\* this file, is not run
MatchFound(path, index, probed, rest) ==
    [found |-> Some(path), index |-> index, probed |-> probed, read |-> << >>]

RECURSIVE ScanRoots(_, _, _, _, _)
RECURSIVE ScanEntries(_, _, _, _, _, _, _)
\* a loop that runs ffprobe on every file, whatever the index holds
ScanEntriesAlwaysProbe(dirs, r, entries, i, target, index, probed) ==
    IF i > Len(entries)
    THEN ScanRoots(dirs, r + 1, target, index, probed)
    ELSE LET e == entries[i]
             path == <<storage_paths[r], e.name>>
             dur == e.probe
             index2 == IF e.probe.some
                       THEN [q \in DOMAIN index \cup {path} |->
                               IF q = path THEN e.probe.val ELSE index[q]]
                       ELSE index
             probed2 == Append(probed, path)
         IN  IF e.kind # "file"
             THEN ScanEntries(dirs, r, entries, i + 1, target, index, probed)
             ELSE IF ~dur.some
             THEN ScanEntries(dirs, r, entries, i + 1, target, index2, probed2)
             ELSE IF DurationMatches(dur.val, target)
             THEN MatchFound(path, index2, probed2,
                             ScanEntries(dirs, r, entries, i + 1, target, index2, probed2))
             ELSE ScanEntries(dirs, r, entries, i + 1, target, index2, probed2)

\* a loop that gives the whole search up at the first file ffprobe cannot measure
ScanEntriesAbortOnProbeFailure(dirs, r, entries, i, target, index, probed) ==
    IF i > Len(entries)
    THEN ScanRoots(dirs, r + 1, target, index, probed)
    ELSE LET e == entries[i]
             path == <<storage_paths[r], e.name>>
             cached == IF path \in DOMAIN index THEN Some(index[path]) ELSE None
             dur == IF cached.some THEN cached ELSE e.probe
             index2 == IF ~cached.some /\ e.probe.some
                       THEN [q \in DOMAIN index \cup {path} |->
                               IF q = path THEN e.probe.val ELSE index[q]]
                       ELSE index
             probed2 == IF cached.some THEN probed ELSE Append(probed, path)
         IN  IF e.kind # "file"
             THEN ScanEntries(dirs, r, entries, i + 1, target, index, probed)
             ELSE IF ~dur.some
             THEN [found |-> None, index |-> index2, probed |-> probed2, read |-> << >>]
             ELSE IF DurationMatches(dur.val, target)
             THEN MatchFound(path, index2, probed2,
                             ScanEntries(dirs, r, entries, i + 1, target, index2, probed2))
             ELSE ScanEntries(dirs, r, entries, i + 1, target, index2, probed2)

\* lines 179-213: the entries of one channel directory from the i-th on, then the
\* roots after r.  dirs are the channel directories on disk, index is
\* file_durations_cache, probed the ffprobe runs so far.
ScanEntries(dirs, r, entries, i, target, index, probed) ==
    IF i > Len(entries)
    THEN ScanRoots(dirs, r + 1, target, index, probed)
    ELSE LET e == entries[i]
             path == <<storage_paths[r], e.name>>
             cached == IF path \in DOMAIN index THEN Some(index[path]) ELSE None
             \* get_video_duration runs only when the index has no entry
             dur == IF cached.some THEN cached ELSE e.probe
             index2 == IF ~cached.some /\ e.probe.some
                       THEN [q \in DOMAIN index \cup {path} |->
                               IF q = path THEN e.probe.val ELSE index[q]]
                       ELSE index
             probed2 == IF cached.some THEN probed ELSE Append(probed, path)
         IN  IF e.kind # "file"
             THEN ScanEntries(dirs, r, entries, i + 1, target, index, probed)
             ELSE IF ~dur.some
             THEN ScanEntries(dirs, r, entries, i + 1, target, index2, probed2)
             ELSE IF DurationMatches(dur.val, target)
             THEN MatchFound(path, index2, probed2,
                             ScanEntries(dirs, r, entries, i + 1, target, index2, probed2))
             ELSE ScanEntries(dirs, r, entries, i + 1, target, index2, probed2)

\* lines 173-219: the storage roots from the r-th on; a channel directory that
\* cannot be read is skipped.  `read` lists the roots whose channel directory
\* std::fs::read_dir was called on.
ScanRoots(dirs, r, target, index, probed) ==
    IF r > Len(storage_paths)
    THEN [found |-> None, index |-> index, probed |-> probed, read |-> << >>]
    ELSE LET out == IF dirs[r].some
                    THEN ScanEntries(dirs, r, dirs[r].val, 1, target, index, probed)
                    ELSE ScanRoots(dirs, r + 1, target, index, probed)
         IN  [out EXCEPT !.read = <<r>> \o @]

LocalFrame == component = "local" /\ UNCHANGED <<component, instant_floor, now, cacheVars, scanVars, uiVars>>

\* an is_video_downloaded that looks for a duration of 0 when it is given none
IsVideoDownloadedOnAnyTarget(dirs, duration, index) ==
    ScanRoots(dirs, 1, IF duration.some THEN duration.val ELSE 0, index, << >>)

\* is_video_downloaded(channel_name, duration) on the disk `dirs` with the
\* index `index`: what it returns, the index afterwards, the files it probed
IsVideoDownloadedOn(dirs, duration, index) ==
    IF duration.some
    THEN ScanRoots(dirs, 1, duration.val, index, << >>)
    ELSE [found |-> None, index |-> index, probed |-> << >>, read |-> << >>]

\* is_video_downloaded(channel_name, duration)
IsVideoDownloaded(duration) ==
    /\ LET out == IsVideoDownloadedOn(chan_dir, duration, file_durations_cache)
       IN  /\ file_durations_cache' = out.index
           /\ local_ret' = [op |-> "is_video_downloaded", duration |-> duration,
                            res |-> out.found, probed |-> out.probed,
                            read |-> out.read,
                            index_before |-> file_durations_cache]
    /\ UNCHANGED <<root_exists, chan_dir>>
    /\ LocalFrame

RECURSIVE FirstExistingFrom(_)
\* lines 246-252: the loop over storage_paths, from the i-th on
FirstExistingFrom(i) ==
    IF i > Len(storage_paths) THEN [ok |-> FALSE, error |-> "Aucun disque de stockage disponible"]
    ELSE IF root_exists[i] THEN [ok |-> TRUE, path |-> storage_paths[i]]
    ELSE FirstExistingFrom(i + 1)

RECURSIVE LastExistingFrom(_)
\* a loop that does not return at the first root that exists
LastExistingFrom(i) ==
    IF i > Len(storage_paths) THEN [ok |-> FALSE, error |-> "Aucun disque de stockage disponible"]
    ELSE LET later == LastExistingFrom(i + 1)
         IN  IF later.ok THEN later
             ELSE IF root_exists[i] THEN [ok |-> TRUE, path |-> storage_paths[i]]
             ELSE later

BestStoragePathLast == LastExistingFrom(1)

\* the value find_best_storage_path returns
BestStoragePath == FirstExistingFrom(1)

\* find_best_storage_path()
FindBestStoragePath ==
    /\ local_ret' = [op |-> "find_best_storage_path", res |-> BestStoragePath]
    /\ UNCHANGED <<root_exists, chan_dir, file_durations_cache>>
    /\ LocalFrame

\* a file of a channel directory is replaced by another one of the same name
\* (the index keeps what it measured before)
LocalFileReplaced(r, i, d) ==
    /\ chan_dir[r].some
    /\ i \in 1..Len(chan_dir[r].val)
    /\ chan_dir[r].val[i].kind = "file"
    /\ chan_dir[r].val[i].probe # Some(d)
    /\ chan_dir' = [chan_dir EXCEPT ![r] =
          Some([chan_dir[r].val EXCEPT ![i] = File(chan_dir[r].val[i].name, d)])]
    /\ local_ret' = NoReturn
    /\ UNCHANGED <<root_exists, file_durations_cache>>
    /\ LocalFrame

\* the storage roots on disk: a channel directory needs its root
LocalInit ==
    /\ root_exists \in [ROOTS -> BOOLEAN]
    /\ chan_dir \in [ROOTS -> CHANNEL_DIRS]
    /\ \A r \in ROOTS : chan_dir[r].some => root_exists[r]
    /\ file_durations_cache = << >>
    /\ local_ret = NoReturn

\* the other components' view of the disk, where it plays no part
LocalIdle ==
    /\ root_exists = [r \in ROOTS |-> TRUE]
    /\ chan_dir = [r \in ROOTS |-> None]
    /\ file_durations_cache = << >>
    /\ local_ret = NoReturn

\* the durations a replaced file may have: exactly the target's
REPLACEMENT_DURATIONS == {1200}

EntryIndexes(r) == IF chan_dir[r].some THEN DOMAIN chan_dir[r].val ELSE {}

LocalNext ==
    \/ \E d \in TARGETS : IsVideoDownloaded(d)
    \/ FindBestStoragePath
    \/ \E r \in ROOTS : \E i \in EntryIndexes(r), d \in REPLACEMENT_DURATIONS :
          LocalFileReplaced(r, i, d)

(***************************************************************************)
(* ui/mod.rs: NDownloaderApp, the dialog, the tasks it spawns              *)
(***************************************************************************)
\* the scans select_channel has spawned and that have not completed
MaxScans == 1

\* the tasks confirm_download has spawned and that have not ended
MaxMonitors == 2

\* the requests the download queue accepts
MaxTasks == 2

\* the turns of the polling loop of one task that find no file
MaxPolls == 1

\* the scans select_channel has spawned in the application whose list of
\* channels changes: enough for a scan to outlive the selection it was made for
MaxChannelScans == 2

\* the limit on the scans in flight
ScanLimit == IF component = "channels" THEN MaxChannelScans ELSE MaxScans

\* struct Channel, lines 53-58
Channel(name, platform, url) == [name |-> name, platform |-> platform, url |-> url]

\* the list of channels of an application that watches one channel
ONE_CHANNEL == <<Channel("chan", "Twitch", <<"twitch.tv", "/", "chan">>)>>

\* what a scan of the channel may list: one video of 120.0 s, the same video
\* listed twice, and that video with one of unknown duration
Meta(url, duration) == [url |-> url, duration |-> duration]

LISTINGS ==
    { <<Meta("u1", Some(1200))>>,
      <<Meta("u1", Some(1200)), Meta("u1", Some(1200))>>,
      <<Meta("u1", Some(1200)), Meta("u2", None)>> }

\* what the user types in the dialog, character by character
FILENAMES == { <<"a">>, <<" ", "b">> }

\* file names of blanks only
BLANK_FILENAMES == { <<" ", " ">> }

RECURSIVE TrimStart(_)
TrimStart(s) == IF s # << >> /\ Head(s) = " " THEN TrimStart(Tail(s)) ELSE s

RECURSIVE TrimEnd(_)
TrimEnd(s) ==
    IF s # << >> /\ s[Len(s)] = " " THEN TrimEnd(SubSeq(s, 1, Len(s) - 1)) ELSE s

\* str::trim
Trim(s) == TrimEnd(TrimStart(s))

\* line 345: format!("{}/{}/{}.mp4", storage_path, channel_name, filename.trim())
OutputPath(storage_path, channel_name, filename) == <<storage_path, Trim(filename)>>

\* Path::exists on a file of the channel directory
PathExists(dirs, path) ==
    \E r \in ROOTS :
        /\ storage_paths[r] = path[1]
        /\ dirs[r].some
        /\ \E i \in DOMAIN dirs[r].val : dirs[r].val[i].name = path[2]

\* the download tool creates its output file, or writes over the one there
WriteFile(dirs, path, probe) ==
    [r \in ROOTS |->
        IF storage_paths[r] # path[1] THEN dirs[r]
        ELSE IF ~dirs[r].some
        THEN Some(<<[name |-> path[2], kind |-> "file", probe |-> probe]>>)
        ELSE IF \E i \in DOMAIN dirs[r].val : dirs[r].val[i].name = path[2]
        THEN Some([i \in DOMAIN dirs[r].val |->
                     IF dirs[r].val[i].name = path[2]
                     THEN [name |-> path[2], kind |-> "file", probe |-> probe]
                     ELSE dirs[r].val[i]])
        ELSE Some(Append(dirs[r].val, [name |-> path[2], kind |-> "file", probe |-> probe]))]

\* lines 351-356, 386-391, 438-443: the first video of the list with this URL
\* takes the status, the loop breaks there
RECURSIVE SetFirstStatus(_, _, _)
SetFirstStatus(vs, url, status) ==
    IF vs = << >> THEN << >>
    ELSE IF Head(vs).url = url
    THEN <<[Head(vs) EXCEPT !.status = status]>> \o Tail(vs)
    ELSE <<Head(vs)>> \o SetFirstStatus(Tail(vs), url, status)

\* lines 221-243: the listing mapped to the video list, is_video_downloaded
\* called once per video, in order
RECURSIVE MapVideos(_, _, _, _)
MapVideos(metas, dirs, index, downloading) ==
    IF metas = << >> THEN [videos |-> << >>, index |-> index, io |-> {}]
    ELSE LET meta == Head(metas)
             out == IsVideoDownloadedOn(dirs, meta.duration, index)
             is_downloaded == out.found.some
             is_downloading == meta.url \in downloading
             status == IF is_downloaded THEN "Downloaded"
                       ELSE IF is_downloading THEN "Downloading"
                       ELSE "NotDownloaded"
             rest == MapVideos(Tail(metas), dirs, out.index, downloading)
         IN  [videos |-> <<[url |-> meta.url, status |-> status]>> \o rest.videos,
              index |-> rest.index,
              io |-> (IF out.read # << >> THEN {"read_dir"} ELSE {})
                       \cup (IF out.probed # << >> THEN {"ffprobe"} ELSE {})
                       \cup rest.io]

RemoveAt(s, k) == [i \in 1..(Len(s) - 1) |-> IF i < k THEN s[i] ELSE s[i + 1]]

UiFrame ==
    /\ component \in {"ui", "channels"}
    /\ UNCHANGED <<component, instant_floor, now, cacheVars, scanVars, root_exists, local_ret, queue_progress,
                   channels, channels_file>>

\* select_channel(index): lines 205-255 up to the spawn
SelectChannel(index) ==
    /\ selected_channel = None
    /\ ~download_input.some
    /\ Len(scans) < ScanLimit
    /\ selected_channel' = Some(index)
    /\ loading' = TRUE
    /\ videos' = << >>
    /\ scans' = Append([k \in DOMAIN scans |-> [scans[k] EXCEPT !.current = FALSE]],
                       [channel_name |-> channels[index].name, current |-> TRUE])
    /\ ui_event' = NoReturn
    /\ UNCHANGED <<download_input, download_video, downloading_videos, monitors, tasks,
                   chan_dir, file_durations_cache>>
    /\ ui_thread_io' = {}
    /\ UiFrame

\* lines 216-252: the scan of a spawned task returns, the list is replaced
ScanCompleted(k, result) ==
    /\ k \in DOMAIN scans
    /\ LET out == MapVideos(result.val, chan_dir, file_durations_cache, downloading_videos)
       IN  IF result.some
           THEN /\ videos' = out.videos
                /\ file_durations_cache' = out.index
                /\ ui_thread_io' = out.io
           ELSE /\ UNCHANGED <<videos, file_durations_cache>>
                /\ ui_thread_io' = {}
    /\ loading' = FALSE
    /\ scans' = RemoveAt(scans, k)
    /\ ui_event' = NoReturn
    /\ UNCHANGED <<selected_channel, download_input, download_video, downloading_videos,
                   monitors, tasks, chan_dir>>
    /\ UiFrame

\* go_back: lines 279-282
GoBack ==
    /\ ~download_input.some
    /\ selected_channel' = None
    /\ videos' = << >>
    /\ ui_event' = NoReturn
    /\ scans' = [k \in DOMAIN scans |-> [scans[k] EXCEPT !.current = FALSE]]
    /\ UNCHANGED <<loading, download_input, download_video, downloading_videos,
                   monitors, tasks, chan_dir, file_durations_cache>>
    /\ ui_thread_io' = {}
    /\ UiFrame

\* start_download: lines 297-309, from the click handler of lines 809-822
StartDownload(i) ==
    /\ selected_channel.some
    /\ ~loading
    /\ ~download_input.some
    /\ i \in DOMAIN videos
    /\ videos[i].status = "NotDownloaded"
    /\ download_input' = Some(<< >>)
    /\ download_video' = Some([url |-> videos[i].url,
                               channel_name |-> channels[selected_channel.val].name,
                               progress |-> 0])
    /\ ui_event' = NoReturn
    /\ UNCHANGED <<selected_channel, loading, videos, downloading_videos, scans, monitors,
                   tasks, chan_dir, file_durations_cache>>
    /\ ui_thread_io' = {}
    /\ UiFrame

\* the user types in the text input of the dialog
TypeFilename(text) ==
    /\ download_input.some
    /\ download_input.val # text
    /\ download_input' = Some(text)
    /\ ui_event' = NoReturn
    /\ UNCHANGED <<selected_channel, loading, videos, download_video, downloading_videos,
                   scans, monitors, tasks, chan_dir, file_durations_cache>>
    /\ ui_thread_io' = {}
    /\ UiFrame

\* cancel_download: lines 311-315, from handle_cancel_download, the Annuler
\* button, the escape key and a click outside the dialog
CancelDownload ==
    /\ download_input.some \/ selected_channel = None
    /\ download_input' = None
    /\ download_video' = None
    /\ ui_event' = [op |-> "cancel_download", video |-> download_video]
    /\ UNCHANGED <<selected_channel, loading, videos, downloading_videos, scans, monitors,
                   tasks, chan_dir, file_durations_cache>>
    /\ ui_thread_io' = {}
    /\ UiFrame

\* line 406: the simulated progress stops growing at 0.9, counted in tenths
PROGRESS_LIMIT == 9

\* a confirm that takes the file name as typed, blank or not
ConfirmDownloadUntrimmed ==
    /\ download_input.some
    /\ download_video.some
    /\ LET filename == download_input.val
           video == download_video.val
           storage == BestStoragePath
       IN  IF filename = << >> \/ ~storage.ok
           THEN /\ ui_event' = NoReturn
                /\ ui_thread_io' = IF Trim(filename) = << >> THEN {} ELSE {"exists"}
                /\ UNCHANGED <<download_input, download_video, downloading_videos, videos,
                               monitors>>
           ELSE /\ Len(monitors) < MaxMonitors
                /\ downloading_videos' = downloading_videos \cup {video.url}
                /\ videos' = SetFirstStatus(videos, video.url, "Downloading")
                /\ ui_event' = [op |-> "confirm_download",
                                notified |-> [kind |-> "info", filename |-> Trim(filename)]]
                /\ monitors' = Append(monitors,
                      [video_url |-> video.url,
                       filename |-> filename,
                       output_path |-> OutputPath(storage.path, video.channel_name, filename),
                       pc |-> "add_download",
                       progress |-> 0])
                /\ download_input' = None
                /\ download_video' = None
                /\ ui_thread_io' = {"exists"}
    /\ UNCHANGED <<selected_channel, loading, scans, tasks, chan_dir, file_durations_cache>>
    /\ UiFrame

\* confirm_download: lines 317-460 up to the spawn and the closing of the dialog
ConfirmDownload ==
    /\ download_input.some
    /\ download_video.some
    /\ LET filename == download_input.val
           video == download_video.val
           storage == BestStoragePath
       IN  IF Trim(filename) = << >> \/ ~storage.ok
           THEN /\ ui_event' = NoReturn
                /\ ui_thread_io' = IF Trim(filename) = << >> THEN {} ELSE {"exists"}
                /\ UNCHANGED <<download_input, download_video, downloading_videos, videos,
                               monitors>>
           ELSE /\ Len(monitors) < MaxMonitors
                /\ downloading_videos' = downloading_videos \cup {video.url}
                /\ videos' = SetFirstStatus(videos, video.url, "Downloading")
                /\ ui_event' = [op |-> "confirm_download",
                                notified |-> [kind |-> "info", filename |-> Trim(filename)]]
                /\ monitors' = Append(monitors,
                      [video_url |-> video.url,
                       filename |-> filename,
                       output_path |-> OutputPath(storage.path, video.channel_name, filename),
                       pc |-> "add_download",
                       progress |-> 0])
                /\ download_input' = None
                /\ download_video' = None
                /\ ui_thread_io' = {"exists"}
    /\ UNCHANGED <<selected_channel, loading, scans, tasks, chan_dir, file_durations_cache>>
    /\ UiFrame

\* ---- DownloadQueue (downloader_queue.rs is not part of the sources: modelled
\* ---- from the specification, section 4.3)
Terminal(state) == state \in {"Succeeded", "Failed", "Cancelled"}

\* a queue that starts a job for every request
AddDownloadNoDedup(queue, video_url, destination_path, spawned) ==
    IF ~spawned
    THEN [ok |-> FALSE, tasks |-> queue]
    ELSE [ok |-> TRUE,
          tasks |-> Append(queue, [video_url |-> video_url,
                                   destination_path |-> destination_path,
                                   state |-> "Running",
                                   proc |-> "running"])]

\* add_download(display_name, video_url, filename, destination_path): a request
\* for a URL that has a non-terminal task is rejected; else the task is
\* registered Running and the download tool is spawned on it
AddDownload(queue, video_url, destination_path, spawned) ==
    IF \E i \in DOMAIN queue : queue[i].video_url = video_url /\ ~Terminal(queue[i].state)
    THEN [ok |-> FALSE, tasks |-> queue]
    ELSE IF ~spawned
    THEN [ok |-> FALSE, tasks |-> queue]
    ELSE [ok |-> TRUE,
          tasks |-> Append(queue, [video_url |-> video_url,
                                   destination_path |-> destination_path,
                                   state |-> "Running",
                                   proc |-> "running"])]

\* a queue that runs a failed job again
TaskOnExitRetry(task, code, file_exists) ==
    IF code = 0 /\ file_exists
    THEN [task EXCEPT !.state = "Succeeded", !.proc = "exit_zero"]
    ELSE [task EXCEPT !.state = "Queued", !.proc = "exit_nonzero"]

\* the terminal transitions of the job monitoring: Succeeded when the
\* subprocess exited zero and the destination file exists, Failed otherwise
TaskOnExit(task, code, file_exists) ==
    IF code = 0 /\ file_exists
    THEN [task EXCEPT !.state = "Succeeded", !.proc = "exit_zero"]
    ELSE [task EXCEPT !.state = "Failed",
                      !.proc = IF code = 0 THEN "exit_zero" ELSE "exit_nonzero"]

\* a task that, on an error of add_download, only ends
MonitorAddDownloadNoRollback(m, spawned) ==
    /\ m \in DOMAIN monitors
    /\ monitors[m].pc = "add_download"
    /\ LET mon == monitors[m]
           res == AddDownload(tasks, mon.video_url, mon.output_path, spawned)
       IN  /\ Len(res.tasks) <= MaxTasks
           /\ tasks' = res.tasks
           /\ ui_event' = [op |-> "add_download", video_url |-> mon.video_url,
                           ok |-> res.ok, queue_before |-> tasks,
                           notified |-> IF res.ok THEN None ELSE Some("error")]
           /\ monitors' = IF res.ok THEN [monitors EXCEPT ![m].pc = "polling"]
                          ELSE RemoveAt(monitors, m)
           /\ UNCHANGED <<downloading_videos, videos>>
    /\ UNCHANGED <<selected_channel, loading, download_input, download_video, scans,
                   chan_dir, file_durations_cache>>
    /\ ui_thread_io' = {}
    /\ UiFrame

\* lines 368-396: the spawned task calls add_download; on an error it undoes
\* what confirm_download marked and ends
MonitorAddDownload(m, spawned) ==
    /\ m \in DOMAIN monitors
    /\ monitors[m].pc = "add_download"
    /\ LET mon == monitors[m]
           res == AddDownload(tasks, mon.video_url, mon.output_path, spawned)
       IN  /\ Len(res.tasks) <= MaxTasks
           /\ tasks' = res.tasks
           /\ ui_event' = [op |-> "add_download", video_url |-> mon.video_url,
                           ok |-> res.ok, queue_before |-> tasks,
                           notified |-> IF res.ok THEN None ELSE Some("error")]
           /\ IF res.ok
              THEN /\ monitors' = [monitors EXCEPT ![m].pc = "polling"]
                   /\ UNCHANGED <<downloading_videos, videos>>
              ELSE /\ monitors' = RemoveAt(monitors, m)
                   /\ downloading_videos' = downloading_videos \ {mon.video_url}
                   /\ videos' = SetFirstStatus(videos, mon.video_url, "NotDownloaded")
    /\ UNCHANGED <<selected_channel, loading, download_input, download_video, scans,
                   chan_dir, file_durations_cache>>
    /\ ui_thread_io' = {}
    /\ UiFrame

\* lines 400-452: one turn of the polling loop, after its timer of 2 s
MonitorPoll(m) ==
    /\ m \in DOMAIN monitors
    /\ monitors[m].pc = "polling"
    /\ LET mon == monitors[m]
           progress == IF mon.progress < PROGRESS_LIMIT THEN mon.progress + 1
                       ELSE mon.progress
           shown == download_video.some /\ download_video.val.url = mon.video_url
           exists == PathExists(chan_dir, mon.output_path)
       IN  /\ exists \/ mon.progress < MaxPolls
           /\ download_video' =
                 IF ~shown THEN download_video
                 ELSE IF exists THEN Some([download_video.val EXCEPT !.progress = 10])
                 ELSE Some([download_video.val EXCEPT !.progress = progress])
           /\ IF exists
              THEN /\ ui_event' = [op |-> "poll", video_url |-> mon.video_url,
                                   output_path |-> mon.output_path,
                                   notified |-> [kind |-> "success",
                                                 filename |-> Trim(mon.filename)]]
                   /\ downloading_videos' = downloading_videos \ {mon.video_url}
                   /\ videos' = SetFirstStatus(videos, mon.video_url, "Downloaded")
                   /\ monitors' = RemoveAt(monitors, m)
              ELSE /\ monitors' = [monitors EXCEPT ![m].progress = progress]
                   /\ ui_event' = NoReturn
                   /\ UNCHANGED <<downloading_videos, videos>>
    /\ UNCHANGED <<selected_channel, loading, download_input, scans, tasks,
                   chan_dir, file_durations_cache>>
    /\ ui_thread_io' = {}
    /\ UiFrame

\* what ffprobe would measure on a file the download tool wrote: 120.0 s
WRITTEN_PROBES == {Some(1200)}

\* the download tool of a running task writes its output file
ProcWritesFile(t, probe) ==
    /\ t \in DOMAIN tasks
    /\ tasks[t].proc = "running"
    /\ chan_dir' = WriteFile(chan_dir, tasks[t].destination_path, probe)
    /\ chan_dir' # chan_dir
    /\ ui_event' = NoReturn
    /\ UNCHANGED <<selected_channel, loading, videos, download_input, download_video,
                   downloading_videos, scans, monitors, tasks,
                   file_durations_cache>>
    /\ ui_thread_io' = {}
    /\ UiFrame

\* the download tool of a running task exits, and the queue records the outcome
ProcExit(t, code) ==
    /\ t \in DOMAIN tasks
    /\ tasks[t].proc = "running"
    /\ tasks' = [tasks EXCEPT ![t] =
          TaskOnExit(tasks[t], code, PathExists(chan_dir, tasks[t].destination_path))]
    /\ ui_event' = NoReturn
    /\ UNCHANGED <<selected_channel, loading, videos, download_input, download_video,
                   downloading_videos, scans, monitors, chan_dir,
                   file_durations_cache>>
    /\ ui_thread_io' = {}
    /\ UiFrame

\* the values the queue gives the progress field of a task, in tenths
QUEUE_PROGRESS == {0, 1, 5, 10}

\* the job monitoring of the queue updates the progress field of a running task
QueueProgress(t, p) ==
    /\ component = "ui"
    /\ t \in DOMAIN tasks
    /\ tasks[t].proc = "running"
    /\ queue_progress[t] # p
    /\ queue_progress' = [queue_progress EXCEPT ![t] = p]
    /\ ui_event' = NoReturn
    /\ ui_thread_io' = {}
    /\ UNCHANGED <<component, instant_floor, now, cacheVars, scanVars, localVars, channels, channels_file,
                   selected_channel, loading,
                   videos, download_input, download_video, downloading_videos, scans,
                   monitors, tasks>>

\* ---- the list of channels: lines 76-151, 177-191, 257-277
\* str::find: the position of the first occurrence of pat in s, 0 when none
Find(s, pat) ==
    IF Contains(s, pat)
    THEN CHOOSE i \in 1..(Len(s) - Len(pat) + 1) :
            /\ SubSeq(s, i, i + Len(pat) - 1) = pat
            /\ \A j \in 1..(i - 1) : SubSeq(s, j, j + Len(pat) - 1) # pat
    ELSE 0

\* rest.split('/').next(): what stands before the first '/', the empty string
\* when nothing does (a URL is written piece by piece, a name being one piece)
FirstSegment(rest) == IF rest = << >> \/ Head(rest) = "/" THEN "" ELSE Head(rest)

\* &url[idx + len..]
After(url, pat) == SubSeq(url, Find(url, pat) + Len(pat), Len(url))

\* Platform::from_url, lines 76-86
PlatformFromUrl(url) ==
    IF Contains(url, <<"youtube.com">>) \/ Contains(url, <<"youtu.be">>) THEN Some("YouTube")
    ELSE IF Contains(url, <<"twitch.tv">>) THEN Some("Twitch")
    ELSE None

\* the Twitch part of extract_channel_name, lines 104-113
ExtractTwitchName(url) ==
    IF Contains(url, <<"twitch.tv", "/">>)
    THEN LET channel == FirstSegment(After(url, <<"twitch.tv", "/">>))
         IN  IF channel # "" /\ channel # "videos" THEN Some(channel) ELSE None
    ELSE None

\* Platform::extract_channel_name, lines 88-116
ExtractChannelName(url) ==
    IF Contains(url, <<"youtube.com">>) /\ Contains(url, <<"/", "@">>)
    THEN Some(FirstSegment(After(url, <<"/", "@">>)))
    ELSE IF Contains(url, <<"youtube.com">>) /\ Contains(url, <<"/", "c", "/">>)
    THEN Some(FirstSegment(After(url, <<"/", "c", "/">>)))
    ELSE IF Contains(url, <<"youtube.com">>) /\ Contains(url, <<"/", "channel", "/">>)
    THEN Some(FirstSegment(After(url, <<"/", "channel", "/">>)))
    ELSE ExtractTwitchName(url)

\* what the user pastes in the URL input: two ways of writing a Twitch channel,
\* a YouTube channel, a Twitch URL with no channel, a YouTube link to a video,
\* a URL of no known platform
CHANNEL_URLS ==
    { <<"twitch.tv", "/", "chan">>,
      <<"twitch.tv", "/", "chan", "/">>,
      <<"youtube.com", "/", "@", "tube">>,
      <<"twitch.tv", "/", "videos">>,
      <<"youtu.be", "/", "x">>,
      <<"example.org", "/", "chan">> }

\* load_channels, lines 124-138: a missing or unparsable file gives no channel
LoadChannels(file) == IF file.kind = "json" THEN file.pairs ELSE << >>

\* save_channels, lines 140-151: a failure of std::fs::write is logged
SaveChannels(file, list, outcome) ==
    CASE outcome = "written" -> FileJson(list)
      [] outcome = "not_opened" -> file
      [] outcome = "cut_short" -> FileCorrupt

\* a list that takes a channel whatever the list holds
AddChannelNoDedup(list, url) ==
    IF PlatformFromUrl(url).some /\ ExtractChannelName(url).some
    THEN [changed |-> TRUE,
          channels |-> Append(list, Channel(ExtractChannelName(url).val,
                                            PlatformFromUrl(url).val, url))]
    ELSE [changed |-> FALSE, channels |-> list]

\* add_channel_from_url, lines 177-191, on the list
AddChannel(list, url) ==
    IF /\ PlatformFromUrl(url).some
       /\ ExtractChannelName(url).some
       /\ ~\E i \in DOMAIN list : list[i].url = url
    THEN [changed |-> TRUE,
          channels |-> Append(list, Channel(ExtractChannelName(url).val,
                                            PlatformFromUrl(url).val, url))]
    ELSE [changed |-> FALSE, channels |-> list]

\* the steps of the list of channels leave the downloads and the scans alone
ChannelsFrame ==
    /\ component = "channels"
    /\ UNCHANGED <<component, instant_floor, now, cacheVars, scanVars, localVars, queue_progress, loading,
                   download_input, download_video, downloading_videos, scans, monitors, tasks>>

\* handle_add_channel and add_channel_from_url, lines 177-203
AddChannelFromUrl(url, outcome) ==
    /\ LET out == AddChannel(channels, url)
       IN  /\ channels' = out.channels
           /\ channels_file' = IF out.changed
                                THEN SaveChannels(channels_file, out.channels, outcome)
                                ELSE channels_file
           /\ ui_thread_io' = IF out.changed THEN {"write"} ELSE {}
           /\ ui_event' = [op |-> "add_channel", url |-> url, changed |-> out.changed,
                           outcome |-> outcome]
    /\ UNCHANGED <<selected_channel, videos>>
    /\ ChannelsFrame

\* a deletion that leaves the selection where it was
DeleteSelectionKept(selected, index) == [selected_channel |-> selected, cleared |-> FALSE]

\* delete_channel, lines 264-273: what becomes of the selection (indexes from 1)
DeleteSelection(selected, index) ==
    IF selected = Some(index) THEN [selected_channel |-> None, cleared |-> TRUE]
    ELSE IF selected.some /\ selected.val > index
    THEN [selected_channel |-> Some(selected.val - 1), cleared |-> FALSE]
    ELSE [selected_channel |-> selected, cleared |-> FALSE]

\* delete_channel(index), lines 257-277
DeleteChannel(index, outcome) ==
    /\ IF index \in DOMAIN channels
       THEN LET sel == DeleteSelection(selected_channel, index)
            IN  /\ channels' = RemoveAt(channels, index)
                /\ channels_file' = SaveChannels(channels_file, RemoveAt(channels, index), outcome)
                /\ selected_channel' = sel.selected_channel
                /\ videos' = IF sel.cleared THEN << >> ELSE videos
                /\ ui_thread_io' = {"write"}
       ELSE /\ UNCHANGED <<channels, channels_file, selected_channel, videos>>
            /\ ui_thread_io' = {}
    /\ ui_event' = [op |-> "delete_channel", index |-> index, outcome |-> outcome,
                    channels_before |-> channels, selected_before |-> selected_channel]
    /\ ChannelsFrame

\* what the scan of a channel lists: one video, named after the channel
ChannelListing(channel_name) == <<Meta(<<channel_name, "v1">>, None)>>

\* the channel files the application may start on
CHANNEL_FILES_AT_START ==
    { FileMissing, FileCorrupt, FileJson(ONE_CHANNEL),
      FileJson(<<Channel("tube", "YouTube", <<"youtube.com", "/", "@", "tube">>),
                 Channel("chan", "Twitch", <<"twitch.tv", "/", "chan">>)>>) }

\* NDownloaderApp::new, lines 160-175, but for the channels
AppInit ==
    /\ selected_channel = None
    /\ loading = FALSE
    /\ videos = << >>
    /\ download_input = None
    /\ download_video = None
    /\ downloading_videos = {}
    /\ scans = << >>
    /\ monitors = << >>
    /\ tasks = << >>
    /\ queue_progress = [t \in 1..MaxTasks |-> 0]
    /\ ui_thread_io = {}
    /\ ui_event = NoReturn

\* NDownloaderApp::new, lines 160-175, on a channel file
ChannelsInit ==
    /\ \E file \in CHANNEL_FILES_AT_START :
          channels = LoadChannels(file) /\ channels_file = file
    /\ AppInit

\* NDownloaderApp::new, lines 160-175, and the disk it starts on
UiInit ==
    /\ channels = ONE_CHANNEL
    /\ channels_file = FileJson(ONE_CHANNEL)
    /\ AppInit

\* the disk the application starts on: no storage root, empty roots, or a
\* first root that holds a file "a" of 120.0 s
UiDisk ==
    /\ \/ root_exists = [r \in ROOTS |-> FALSE] /\ chan_dir = [r \in ROOTS |-> None]
       \/ root_exists = [r \in ROOTS |-> TRUE] /\ chan_dir = [r \in ROOTS |-> None]
       \/ /\ root_exists = [r \in ROOTS |-> TRUE]
          /\ chan_dir = [r \in ROOTS |-> IF r = 1 THEN Some(<<File(<<"a">>, 1200)>>) ELSE None]
    /\ local_ret = NoReturn

\* lines 205-252 done once: the application with the list of its channel on
\* screen, no download asked for yet
DownloadsInit ==
    /\ channels = ONE_CHANNEL
    /\ channels_file = FileJson(ONE_CHANNEL)
    /\ selected_channel = Some(1)
    /\ loading = FALSE
    /\ \E listing \in LISTINGS :
          LET out == MapVideos(listing, chan_dir, << >>, {})
          IN  videos = out.videos /\ file_durations_cache = out.index
    /\ download_input = None
    /\ download_video = None
    /\ downloading_videos = {}
    /\ scans = << >>
    /\ monitors = << >>
    /\ tasks = << >>
    /\ queue_progress = [t \in 1..MaxTasks |-> 0]
    /\ ui_thread_io = {}
    /\ ui_event = NoReturn

UiNext ==
    \/ \E index \in DOMAIN channels : SelectChannel(index)
    \/ \E k \in DOMAIN scans : \E result \in {Some(l) : l \in LISTINGS} \cup {None} :
          ScanCompleted(k, result)
    \/ GoBack
    \/ \E i \in DOMAIN videos : StartDownload(i)
    \/ \E text \in FILENAMES : TypeFilename(text)
    \/ CancelDownload
    \/ ConfirmDownload
    \/ \E m \in DOMAIN monitors : \E spawned \in BOOLEAN : MonitorAddDownload(m, spawned)
    \/ \E m \in DOMAIN monitors : MonitorPoll(m)
    \/ \E t \in DOMAIN tasks : \E probe \in WRITTEN_PROBES : ProcWritesFile(t, probe)
    \/ \E t \in DOMAIN tasks : \E code \in {0, 1} : ProcExit(t, code)

\* the list of channels is on screen: render, lines 464-468
ChannelListShown == selected_channel = None /\ ~download_input.some

\* the scans of the channels of a list that changes, as the window lets the user
\* act: channels are added and deleted from the list of channels
ChannelsNext ==
    \/ \E index \in DOMAIN channels : SelectChannel(index)
    \/ \E k \in DOMAIN scans :
          \E result \in {Some(ChannelListing(scans[k].channel_name)), None} :
             ScanCompleted(k, result)
    \/ GoBack
    \/ \E url \in CHANNEL_URLS, o \in {"written", "not_opened", "cut_short"} :
          ChannelListShown /\ AddChannelFromUrl(url, o)
    \/ \E index \in DOMAIN channels, o \in {"written", "not_opened", "cut_short"} :
          ChannelListShown /\ DeleteChannel(index, o)

\* the operations on the selection, delete_channel called in any state
SelectionNext ==
    \/ \E index \in DOMAIN channels : SelectChannel(index)
    \/ \E k \in DOMAIN scans :
          \E result \in {Some(ChannelListing(scans[k].channel_name)), None} :
             ScanCompleted(k, result)
    \/ GoBack
    \/ \E url \in CHANNEL_URLS : AddChannelFromUrl(url, "written")
    \/ \E index \in 1..(Len(channels) + 1) : DeleteChannel(index, "written")

\* the list of channels alone, with writes of the channel file that fail
ChannelListNext ==
    \/ \E url \in CHANNEL_URLS, o \in {"written", "not_opened", "cut_short"} :
          AddChannelFromUrl(url, o)
    \/ \E index \in DOMAIN channels, o \in {"written", "not_opened", "cut_short"} :
          DeleteChannel(index, o)

\* the steps of the downloads alone: the list on screen stays as it is
DownloadsNext ==
    \/ \E i \in DOMAIN videos : StartDownload(i)
    \/ \E text \in FILENAMES : TypeFilename(text)
    \/ CancelDownload
    \/ ConfirmDownload
    \/ \E m \in DOMAIN monitors : \E spawned \in BOOLEAN : MonitorAddDownload(m, spawned)
    \/ \E m \in DOMAIN monitors : MonitorPoll(m)
    \/ \E t \in DOMAIN tasks : \E probe \in WRITTEN_PROBES : ProcWritesFile(t, probe)
    \/ \E t \in DOMAIN tasks : \E code \in {0, 1} : ProcExit(t, code)

\* the downloads, with file names of blanks typed too
ConfirmNext ==
    \/ DownloadsNext
    \/ \E text \in BLANK_FILENAMES : TypeFilename(text)

(***************************************************************************)
(* Specifications                                                          *)
(***************************************************************************)
InitCache ==
    /\ component = "cache" /\ now = 0 /\ instant_floor = SIGNED_FLOOR /\ ScanInit /\ LocalIdle /\ UiInit
    /\ \E file \in CACHE_FILES_AT_START : CacheInitOn(file)

InitScan ==
    /\ component = "scan" /\ now = 0 /\ instant_floor = SIGNED_FLOOR /\ CacheInit /\ LocalIdle /\ UiInit
    /\ \E file \in SCAN_FILES_AT_START : ScanInitOn(file)

InitLocal == component = "local" /\ now = 0 /\ instant_floor = SIGNED_FLOOR /\ CacheInit /\ ScanInit /\ LocalInit /\ UiInit

InitUI ==
    /\ component = "ui" /\ now = 0 /\ instant_floor = SIGNED_FLOOR /\ CacheInit /\ ScanInit
    /\ UiDisk /\ file_durations_cache = << >> /\ UiInit

InitDownloads ==
    component = "ui" /\ now = 0 /\ instant_floor = SIGNED_FLOOR /\ CacheInit /\ ScanInit /\ UiDisk /\ DownloadsInit

SpecCache == InitCache /\ [][CacheNext]_vars

SpecScan == InitScan /\ [][ScanNext]_vars

SpecLocal == InitLocal /\ [][LocalNext]_vars

SpecUI == InitUI /\ [][UiNext]_vars

InitChannels ==
    component = "channels" /\ now = 0 /\ instant_floor = SIGNED_FLOOR /\ CacheInit /\ ScanInit /\ LocalIdle /\ ChannelsInit

\* a start of the program: the clock at its origin, either kind of Instant,
\* any snapshot on disk, the process not yet running
InitStart ==
    /\ component = "start" /\ now = 0
    /\ instant_floor \in INSTANT_FLOORS
    /\ CacheInit /\ LocalIdle /\ UiInit
    /\ scan_cache = << >>
    /\ scan_file \in START_SNAPSHOTS
    /\ calls = [c \in CALLERS |-> Idle]
    /\ scan_ret = NoReturn
    /\ hist_store = [u \in NORMALIZED_URLS |-> None]
    /\ hist_saved = None
    /\ hist_fetched = [u \in NORMALIZED_URLS |-> None]

SpecStart == InitStart /\ [][StartNext]_vars

SpecChannels == InitChannels /\ [][ChannelsNext]_vars

SpecSelection == InitChannels /\ [][SelectionNext]_vars

SpecChannelList == InitChannels /\ [][ChannelListNext]_vars

\* the downloads of a channel whose list is on screen
SpecDownloads == InitDownloads /\ [][DownloadsNext]_vars

SpecUrls == InitScan /\ [][UrlNext]_vars

SpecConfirm == InitDownloads /\ [][ConfirmNext]_vars

\* the downloads under the scheduling the executor gives the spawned tasks: the
\* call of add_download returns, the 2 s timer of the polling loop fires, the
\* download tool exits; nothing makes the tool write its file
MonitoringFairness ==
    /\ \A m \in 1..MaxMonitors :
          /\ WF_vars(\E spawned \in BOOLEAN : MonitorAddDownload(m, spawned))
          /\ WF_vars(MonitorPoll(m))
    /\ \A t \in 1..MaxTasks : WF_vars(\E code \in {0, 1} : ProcExit(t, code))

\* the downloads, with the progress the queue reports for them
ProgressNext ==
    \/ DownloadsNext
    \/ \E t \in DOMAIN tasks : \E p \in QUEUE_PROGRESS : QueueProgress(t, p)

SpecProgress == InitDownloads /\ [][ProgressNext]_vars

SpecMonitoring == InitDownloads /\ [][DownloadsNext]_vars /\ MonitoringFairness

\* one thread using the cache, or one caller using the scanner, over restarts
RestartsNext ==
    \/ CacheNew
    \/ \E k \in KEYS : CacheGet("t1", k)
    \/ \E k \in KEYS, v \in VALUES : CacheSetInsert("t1", k, v)
    \/ \E o \in {"written", "not_opened", "cut_short"} : CacheSetSave("t1", o)
    \/ CacheTick
    \/ ScanNew
    \/ \E u \in RAW_URLS : ScanStart("c1", u)
    \/ \E why \in SCAN_FAILURES : ScanFail("c1", why)
    \/ \E out \in OUTPUTS, o \in {"written", "not_opened", "cut_short"} : ScanOk("c1", out, o)
    \/ ScanTick

\* the two stores, each on its own
SpecStores == (InitCache \/ InitScan) /\ [][RestartsNext]_vars

\* the threads of one run of the process, using the cache or the scanner at once
ConcurrentNext ==
    \/ \E t \in THREADS, k \in KEYS : CacheGet(t, k)
    \/ \E t \in THREADS, k \in KEYS, v \in VALUES : CacheSetInsert(t, k, v)
    \/ \E t \in THREADS, o \in {"written", "not_opened", "cut_short"} : CacheSetSave(t, o)
    \/ CacheTick
    \/ \E c \in CALLERS, u \in RAW_URLS : ScanStart(c, u)
    \/ \E c \in CALLERS, why \in SCAN_FAILURES : ScanFail(c, why)
    \/ \E c \in CALLERS, out \in OUTPUTS, o \in {"written", "not_opened", "cut_short"} :
          ScanOk(c, out, o)
    \/ ScanTick

SpecConcurrent == (InitCache \/ InitScan) /\ [][ConcurrentNext]_vars

(***************************************************************************)
(* Claims                                                                  *)
(***************************************************************************)
\* C1: a get(k) that follows a set(k, v) of this cache instance, with no later
\* set(k, .) in between, returns Some(v) while less than the TTL has elapsed
\* since that set, and None once the TTL has elapsed.
C1_GetFollowsLastSet ==
    cache_ret.op = "get" =>
        LET last == hist_set[cache_ret.key]
        IN  last.some =>
              cache_ret.res = IF now - last.val.at < TTL
                              THEN Some(last.val.value)
                              ELSE None

\* C1 witness: a get of a key that was set, made when the TTL has elapsed, gave None
C1_ExpiredGetSeen ==
    /\ cache_ret.op = "get"
    /\ hist_set[cache_ret.key].some
    /\ now - hist_set[cache_ret.key].val.at >= TTL
    /\ cache_ret.res = None

\* C3, as first stated: two scan_channel_videos calls whose URLs normalize to the
\* same URL, started within cache_duration of each other, never both run yt-dlp.
C3_NeverTwoInvocations ==
    \A c \in CALLERS, d \in CALLERS :
        (c # d /\ calls[c].pc = "running" /\ calls[d].pc = "running"
           /\ calls[c].url = calls[d].url)
        => ~(calls[c].at - calls[d].at < CACHE_TICKS /\ calls[d].at - calls[c].at < CACHE_TICKS)

\* C3, amended: a call that starts while a list stored by an earlier call of this
\* process under the same normalized URL is less than cache_duration old does not
\* run yt-dlp and returns that list.
C3_FreshListServed ==
    (scan_ret.op = "scan" /\ scan_ret.fresh.some) =>
        /\ ~scan_ret.invoked
        /\ scan_ret.res = [ok |-> TRUE, videos |-> scan_ret.fresh.val]

\* C3 witness: a second call was served a non-empty list from the cache
C3_SecondCallServed ==
    /\ scan_ret.op = "scan"
    /\ scan_ret.fresh.some
    /\ ~scan_ret.invoked
    /\ scan_ret.res.ok
    /\ Len(scan_ret.res.videos) = 2

\* C10: a cache constructed on a snapshot written by a prior instance holds the
\* keys and values the prior instance's map held when it wrote that snapshot
\* (for Cache<T> and for the scanner's video cache).
C10_SnapshotRoundTrip ==
    /\ (component = "cache" /\ cache_ret.op = "new" /\ hist_written.some)
          => ValuesOf(cache_data) = hist_written.val
    /\ (component = "scan" /\ scan_ret.op = "new" /\ hist_saved.some)
          => VideosOf(scan_cache) = hist_saved.val

\* C10 witness: a new Cache instance that loaded two keys with different values
C10_TwoKeysLoaded ==
    /\ component = "cache"
    /\ cache_ret.op = "new"
    /\ hist_written.some
    /\ DOMAIN cache_data = KEYS
    /\ cache_data["k1"].value # cache_data["k2"].value

\* the same for the scanner: a restarted scanner that loaded lists of two URLs
C10_TwoListsLoaded ==
    /\ component = "scan"
    /\ scan_ret.op = "new"
    /\ hist_saved.some
    /\ DOMAIN scan_cache = {NormalizeUrl(u) : u \in RAW_URLS}
    /\ \E u \in DOMAIN scan_cache : Len(scan_cache[u].videos) = 2

(***************************************************************************)
(* Claims about is_video_downloaded and find_best_storage_path             *)
(***************************************************************************)
\* the regular files of the channel directories, as <<root, place in the directory>>
FilePositions ==
    UNION {{<<r, i>> : i \in {j \in EntryIndexes(r) : chan_dir[r].val[j].kind = "file"}} : r \in ROOTS}

PathAt(p) == <<storage_paths[p[1]], chan_dir[p[1]].val[p[2]].name>>

\* the order in which the files are visited: roots in their order, then read_dir's
Before(p, q) == p[1] < q[1] \/ (p[1] = q[1] /\ p[2] < q[2])

\* the duration is_video_downloaded gets for a file: the index's, else ffprobe's
ObtainedDuration(p, index) ==
    IF PathAt(p) \in DOMAIN index
    THEN Some(index[PathAt(p)])
    ELSE chan_dir[p[1]].val[p[2]].probe

\* the files whose duration is less than 5.0 s away from the target
MatchingFiles(target, index) ==
    {p \in FilePositions :
        LET d == ObtainedDuration(p, index)
        IN  d.some /\ d.val - target < TOLERANCE_TENTHS /\ target - d.val < TOLERANCE_TENTHS}

\* C7: for a present target duration t, is_video_downloaded returns a path iff
\* some regular file of some root's channel directory has an obtained duration d
\* with |d - t| < 5.0, and the path returned is such a file's.
C7_MatchIffWithinTolerance ==
    (local_ret.op = "is_video_downloaded" /\ local_ret.duration.some) =>
        LET matches == MatchingFiles(local_ret.duration.val, local_ret.index_before)
        IN  /\ local_ret.res.some <=> matches # {}
            /\ local_ret.res.some => \E p \in matches : local_ret.res.val = PathAt(p)

\* C7 witness: a file 5.0 s away from the target was passed over and a file
\* 4.9 s away was returned
C7_ExactlyFiveSkipped ==
    /\ local_ret.op = "is_video_downloaded"
    /\ local_ret.duration = Some(1200)
    /\ local_ret.res.some
    /\ \E p \in FilePositions, q \in FilePositions :
          /\ Before(p, q)
          /\ ObtainedDuration(p, local_ret.index_before) = Some(1250)
          /\ ObtainedDuration(q, local_ret.index_before) = Some(1151)
          /\ local_ret.res.val = PathAt(q)

\* C8: when files match, is_video_downloaded returns the first of them in the
\* order roots-then-directory, and the call probes and memoizes no file that
\* comes after it.
C8_FirstMatchAndStop ==
    (local_ret.op = "is_video_downloaded" /\ local_ret.duration.some) =>
        LET matches == MatchingFiles(local_ret.duration.val, local_ret.index_before)
            upto(first) == {PathAt(q) : q \in {q \in FilePositions : q = first \/ Before(q, first)}}
        IN  \A first \in matches :
                (\A q \in matches : q = first \/ Before(first, q)) =>
                    /\ local_ret.res = Some(PathAt(first))
                    /\ \A i \in DOMAIN local_ret.probed : local_ret.probed[i] \in upto(first)
                    /\ (DOMAIN file_durations_cache) \ (DOMAIN local_ret.index_before)
                          \subseteq upto(first)

\* C8 witness: two roots hold a matching file, the earlier root's was returned
\* and the later root's was neither probed nor memoized
C8_EarlierRootWins ==
    /\ local_ret.op = "is_video_downloaded"
    /\ local_ret.duration.some
    /\ \E p \in MatchingFiles(local_ret.duration.val, local_ret.index_before),
          q \in MatchingFiles(local_ret.duration.val, local_ret.index_before) :
          /\ p[1] < q[1]
          /\ local_ret.res = Some(PathAt(p))
          /\ PathAt(q) \notin DOMAIN file_durations_cache
          /\ local_ret.probed # << >>

NonTerminal(queue, video_url) ==
    {i \in DOMAIN queue : queue[i].video_url = video_url /\ ~Terminal(queue[i].state)}

C4_CancelReachesJob ==
    (ui_event.op = "cancel_download" /\ ui_event.video.some)
      => \A i \in DOMAIN tasks :
            tasks[i].video_url = ui_event.video.val.url
              => tasks[i].state # "Running" /\ tasks[i].proc # "running"

\* the moves of a task's state the state machine has
TaskMove(from, to) ==
    \/ from = to
    \/ from = "Queued" /\ to = "Running"
    \/ from = "Running" /\ Terminal(to)

C6_ReportedOnlyOnSuccess ==
    /\ (ui_event.op = "poll" /\ ui_event.notified.kind = "success")
         => /\ PathExists(chan_dir, ui_event.output_path)
            /\ \E i \in DOMAIN tasks :
                  /\ tasks[i].video_url = ui_event.video_url
                  /\ tasks[i].destination_path = ui_event.output_path
                  /\ tasks[i].proc = "exit_zero"
    /\ \A i \in DOMAIN tasks : tasks[i].proc = "exit_nonzero" => tasks[i].state = "Failed"

(***************************************************************************)
(* Claims about Cache<T> and the scanner's video cache                     *)
(***************************************************************************)
\* C12, as first stated: a get(k) returns Some(v) only for a key that was set,
\* by this instance or by one before it on the same snapshot file, and v is then
\* the value of the most recent set(k, .); a never-set key yields None.
C12_GetGivesMostRecentSet ==
    cache_ret.op = "get" =>
        (cache_ret.res.some =>
            IF hist_set[cache_ret.key].some
            THEN cache_ret.res.val = hist_set[cache_ret.key].val.value
            ELSE /\ cache_ret.key \in DOMAIN hist_new.loaded
                 /\ cache_ret.key \notin hist_new.stale)

\* C12, amended: get(k) returns Some(v) exactly when the map holds an entry for k
\* younger than the TTL. For a key set on this instance the entry is that of the
\* most recent set(k, .), v its value and its age counted from that set; for a key
\* not set on this instance it is the entry Cache::new loaded from the snapshot, v
\* the value the snapshot held and its age counted from the construction. A key
\* neither set nor loaded, and an entry as old as the TTL or older, yield None.
C12_GetCharacterized ==
    cache_ret.op = "get" =>
        LET k == cache_ret.key
        IN  cache_ret.res =
              IF hist_set[k].some
              THEN IF now - hist_set[k].val.at < TTL
                   THEN Some(hist_set[k].val.value)
                   ELSE None
              ELSE IF k \in DOMAIN hist_new.loaded /\ now - hist_new.at < TTL
                   THEN Some(hist_new.loaded[k])
                   ELSE None

\* C12 witness: a get returned the value of the second of two sets of its key,
\* made on an entry that was loaded from the snapshot with another value
C12_OverwriteSeen ==
    /\ cache_ret.op = "get"
    /\ cache_ret.res.some
    /\ hist_set[cache_ret.key].some
    /\ cache_ret.key \in DOMAIN hist_new.loaded
    /\ hist_new.loaded[cache_ret.key] # cache_ret.res.val
    /\ now - hist_new.at >= TTL

\* the key/value set this instance holds according to its history: the value of
\* the last set of each key set so far, the loaded value of the other loaded keys
ExpectedValues ==
    [k \in {k \in KEYS : hist_set[k].some \/ k \in DOMAIN hist_new.loaded} |->
        IF hist_set[k].some THEN hist_set[k].val.value ELSE hist_new.loaded[k]]

\* C13: when a set returns and its snapshot write did not fail, the snapshot file
\* holds the full in-memory key/value set, the entries of concurrent sets that
\* have inserted but not yet saved included; so once all concurrent sets have
\* returned, the last write having succeeded, the file holds exactly the final
\* in-memory set and no older map.
C13_SnapshotHoldsWholeMap ==
    (cache_ret.op = "set" /\ cache_ret.outcome = "written") =>
        /\ ValuesOf(cache_data) = ExpectedValues
        /\ cache_file = FileJson({<<k, ExpectedValues[k]>> : k \in DOMAIN ExpectedValues})

\* C13 witness: two sets of different keys overlap; the one that saves first has
\* returned while the other has inserted and not yet saved, and the file holds
\* both entries
C13_OverlappingSetSaved ==
    /\ cache_ret.op = "set"
    /\ cache_ret.outcome = "written"
    /\ \E t \in THREADS : set_pc[t] = "save"
    /\ \A k \in KEYS : hist_set[k].some
    /\ hist_new.loaded = << >>
    /\ cache_file.kind = "json"
    /\ Cardinality(cache_file.pairs) = 2

\* C14: get and set are linearizable, a set taking effect at its insert and a get
\* at its read: a get returns absent or the complete value written by one
\* set(k, .), namely of the set of k that inserted last before the get read,
\* whether that set has returned or is still saving; never a mix of two sets and
\* never the value of an overwritten one. The scanner's lookup likewise serves a
\* whole list stored by one call, the one stored last under the url.
C14_Linearizable ==
    /\ cache_ret.op = "get" =>
          (cache_ret.res.some =>
              /\ cache_ret.res.val \in VALUES
              /\ cache_ret.key \in DOMAIN ExpectedValues
              /\ cache_ret.res.val = ExpectedValues[cache_ret.key])
    /\ (scan_ret.op = "scan" /\ ~scan_ret.invoked) =>
          /\ scan_ret.res.ok
          /\ \E out \in OUTPUTS : scan_ret.res.videos = ParseLines(out)
          /\ hist_store[scan_ret.url].some =>
                scan_ret.res.videos = hist_store[scan_ret.url].val.videos

\* C14 witness: a get read the value of a set that is still saving, while the
\* snapshot file still holds the value of the set it overwrote
C14_GetDuringSet ==
    /\ cache_ret.op = "get"
    /\ cache_ret.res.some
    /\ \E t \in THREADS : set_pc[t] = "save"
    /\ hist_set[cache_ret.key].some
    /\ cache_file.kind = "json"
    /\ \E p \in cache_file.pairs : p[1] = cache_ret.key /\ p[2] # cache_ret.res.val

\* the snapshot file holds the pair <<k, v>>
FileHolds(k, v) == cache_file.kind = "json" /\ <<k, v>> \in cache_file.pairs

\* C15: a snapshot write that fails does not fail the set. The set returns, the map
\* holds every entry set so far with its value and the timestamp of its set, and a
\* get of a key whose value never reached the file returns that value until the
\* TTL has elapsed since its set.
C15_FailedWriteKeepsEntry ==
    /\ (cache_ret.op = "set" /\ cache_ret.outcome # "written") =>
          /\ ValuesOf(cache_data) = ExpectedValues
          /\ \A k \in KEYS : hist_set[k].some =>
                cache_data[k] = [value |-> hist_set[k].val.value,
                                 timestamp |-> hist_set[k].val.at]
    /\ cache_ret.op = "get" =>
          LET last == hist_set[cache_ret.key]
          IN  (last.some /\ ~FileHolds(cache_ret.key, last.val.value)) =>
                cache_ret.res = IF now - last.val.at < TTL
                                THEN Some(last.val.value)
                                ELSE None

\* C15 witness: every set has returned, the value of the last set of a key is not
\* in the snapshot file, and a get of that key, one tick before the TTL has
\* elapsed, returned it
C15_UnsavedValueServed ==
    /\ cache_ret.op = "get"
    /\ \A t \in THREADS : set_pc[t] = "idle"
    /\ hist_set[cache_ret.key].some
    /\ ~FileHolds(cache_ret.key, hist_set[cache_ret.key].val.value)
    /\ now - hist_set[cache_ret.key].val.at = TTL - 1
    /\ cache_ret.res = Some(hist_set[cache_ret.key].val.value)

\* C16: constructing a cache on a snapshot file that is missing or cannot be
\* parsed, one malformed entry among well-formed ones included, gives an empty
\* cache and no error, and every get returns None until a set is made; the
\* scanner's video cache likewise starts empty and its first lookups miss.
C16_StartsEmptyOnBadSnapshot ==
    /\ (cache_ret.op = "new" /\ cache_file.kind # "json") => cache_data = << >>
    /\ (cache_ret.op = "get" /\ cache_file.kind # "json"
           /\ \A k \in KEYS : ~hist_set[k].some) => cache_ret.res = None
    /\ (scan_ret.op = "new" /\ scan_file.kind # "json") => scan_cache = << >>
    /\ (scan_ret.op = "scan" /\ scan_file.kind # "json"
           /\ \A u \in NORMALIZED_URLS : ~hist_store[u].some) => scan_ret.invoked

\* C16 witness: on an instance constructed on a file with one malformed entry, a
\* get of the key of a well-formed entry of that file returned None
C16_GoodEntryOfBadFileAbsent ==
    /\ cache_ret.op = "get"
    /\ cache_file.kind = "bad_entry"
    /\ \E p \in cache_file.pairs : p[1] = cache_ret.key
    /\ hist_new.at > 0
    /\ cache_ret.res = None

\* C17: every entry Cache::new loads from the snapshot is stamped with the
\* construction time: a get of a loaded key that was not set again returns the
\* loaded value while less than the TTL has elapsed since the construction and
\* None afterwards, whatever the age of the entry in the instance before.
C17_LoadedEntriesStartAfresh ==
    /\ cache_ret.op = "new" =>
          \A k \in DOMAIN cache_data : cache_data[k].timestamp = now
    /\ cache_ret.op = "get" =>
          LET k == cache_ret.key
          IN  (k \in DOMAIN hist_new.loaded /\ ~hist_set[k].some) =>
                cache_ret.res = IF now - hist_new.at < TTL
                                THEN Some(hist_new.loaded[k])
                                ELSE None

\* C17 witness: an entry that had expired in the instance before was loaded, and
\* a get one tick before the TTL has elapsed since the construction returned it
C17_ExpiredEntryRevived ==
    /\ cache_ret.op = "get"
    /\ cache_ret.key \in hist_new.expired
    /\ cache_ret.key \in DOMAIN hist_new.loaded
    /\ ~hist_set[cache_ret.key].some
    /\ now - hist_new.at = TTL - 1
    /\ cache_ret.res = Some(hist_new.loaded[cache_ret.key])

\* C18: the scanner's snapshot stores each entry's elapsed seconds so that the TTL
\* survives restarts: a listing is never served as a cache hit once cache_duration
\* (300 s) has passed since yt-dlp fetched it, restarts in between included.
C18_NoHitPastCacheDuration ==
    (scan_ret.op = "scan" /\ ~scan_ret.invoked) =>
        /\ hist_fetched[scan_ret.url].some
        /\ now - hist_fetched[scan_ret.url].val < CACHE_TICKS

\* C19: expiry is lazy. A get, or a lookup of the scanner, that finds an expired
\* entry reports it absent and leaves the map as it was: whatever their age, the
\* map holds the entry of the last set of every key set on this instance and the
\* loaded entry of every other loaded key, and a snapshot write stores them all,
\* the expired ones included.
C19_ExpiredEntriesStay ==
    /\ DOMAIN cache_data = DOMAIN ExpectedValues
    /\ \A k \in DOMAIN cache_data :
          cache_data[k] = [value |-> ExpectedValues[k],
                           timestamp |-> IF hist_set[k].some THEN hist_set[k].val.at
                                                             ELSE hist_new.at]
    /\ cache_ret.op = "get" =>
          ((cache_ret.key \in DOMAIN cache_data
              /\ now - cache_data[cache_ret.key].timestamp >= TTL) => cache_ret.res = None)
    /\ (cache_ret.op = "set" /\ cache_ret.outcome = "written") =>
          \A k \in DOMAIN ExpectedValues : FileHolds(k, ExpectedValues[k])
    /\ \A u \in NORMALIZED_URLS : hist_store[u].some =>
          /\ u \in DOMAIN scan_cache
          /\ scan_cache[u] = [videos |-> hist_store[u].val.videos,
                              timestamp |-> hist_store[u].val.at]

\* C19 witness: an entry that has expired and was not set again is in the
\* snapshot that a set of another key has just written
C19_ExpiredEntryWritten ==
    /\ cache_ret.op = "set"
    /\ cache_ret.outcome = "written"
    /\ \E k \in KEYS :
          /\ hist_set[k].some
          /\ now - hist_set[k].val.at >= TTL
          /\ FileHolds(k, hist_set[k].val.value)
          /\ \E j \in KEYS \ {k} : hist_set[j].some /\ hist_set[j].val.at = now

(***************************************************************************)
(* Claims about the URL normalization of scan_channel_videos               *)
(***************************************************************************)
\* the entries of the cache that belong to a Twitch URL
TwitchEntries == {u \in DOMAIN scan_cache : Contains(u, <<"twitch.tv">>)}

\* C20, as first stated: the cache is looked up and written only under the
\* normalized URL, so a Twitch channel URL with or without "/videos" or a trailing
\* slash shares one cache entry.
C20_OneEntryPerTwitchChannel == Cardinality(TwitchEntries) <= 1

\* the URL up to its last piece that is not a slash
WithoutTrailingSlashes(u) ==
    LET last == CHOOSE n \in 0..Len(u) :
                   /\ n > 0 => u[n] # "/"
                   /\ \A m \in (n + 1)..Len(u) : u[m] = "/"
    IN  SubSeq(u, 1, last)

\* the URL holds the pieces "/" and "videos" next to each other
HasVideosSegment(u) == \E n \in 1..(Len(u) - 1) : u[n] = "/" /\ u[n + 1] = "videos"

\* C20, amended: a URL that contains "twitch.tv" and no "/videos" is replaced by
\* itself with trailing slashes removed and "/videos" appended, every other URL is
\* used unchanged; the normalization is idempotent; the cache is looked up and
\* written only under the normalized URL. A Twitch channel URL without "/videos",
\* with or without trailing slashes, shares the entry of that URL followed by
\* "/videos"; a URL that holds "/videos" followed by a slash keeps an entry of its own.
C20_NormalizedUrlIsTheKey ==
    /\ \A u \in URL_FORMS :
          /\ NormalizeUrl(u) =
                IF (\E n \in 1..Len(u) : u[n] = "twitch.tv") /\ ~HasVideosSegment(u)
                THEN WithoutTrailingSlashes(u) \o <<"/", "videos">>
                ELSE u
          /\ NormalizeUrl(NormalizeUrl(u)) = NormalizeUrl(u)
    /\ \A u \in DOMAIN scan_cache : \E r \in URL_FORMS : u = NormalizeUrl(r)
    /\ \A c \in CALLERS : calls[c].pc = "running" => NormalizeUrl(calls[c].url) = calls[c].url
    /\ (scan_ret.op = "scan" /\ ~scan_ret.invoked) =>
          /\ scan_ret.url = NormalizeUrl(scan_ret.channel_url)
          /\ scan_ret.url \in DOMAIN scan_cache
          /\ scan_ret.res.videos = scan_cache[scan_ret.url].videos
    /\ \A u \in URL_FORMS :
          (Contains(u, <<"twitch.tv">>) /\ ~HasVideosSegment(u)) =>
             NormalizeUrl(u) = <<"twitch.tv", "/", "chan", "/", "videos">>

\* C20 witness: a scan given the channel URL with trailing slashes was served the
\* list stored under the URL ending in "/videos", the only entry of the cache
C20_SlashFormServed ==
    /\ scan_ret.op = "scan"
    /\ ~scan_ret.invoked
    /\ scan_ret.channel_url = <<"twitch.tv", "/", "chan", "/", "/">>
    /\ DOMAIN scan_cache = {<<"twitch.tv", "/", "chan", "/", "videos">>}
    /\ Len(scan_ret.res.videos) = 2

(***************************************************************************)
(* Claims about the outcomes of scan_channel_videos                        *)
(***************************************************************************)
\* C21, as first stated: a non-zero exit of the listing subprocess is the only
\* subprocess outcome that fails the call.
C21_OnlyNonZeroExitFails ==
    (scan_ret.op = "scan" /\ ~scan_ret.res.ok) => scan_ret.res.error.kind = "exit_nonzero"

\* C21, amended: a call fails exactly when the subprocess cannot be started, exits
\* non-zero, or exits zero with a standard output that is not UTF-8. After a
\* non-zero exit the error carries the standard-error text (lossily decoded). A
\* failing call leaves the cache in memory and the snapshot as they were, and
\* returns no list, an expired entry of the url included.
C21_FailureLeavesCacheAlone ==
    [][(scan_ret'.op = "scan" /\ ~scan_ret'.res.ok) =>
          /\ scan_cache' = scan_cache
          /\ scan_file' = scan_file
          /\ scan_ret'.invoked
          /\ \E why \in SCAN_FAILURES :
                /\ scan_ret'.res = [ok |-> FALSE, error |-> ScanError(why)]
                /\ why.kind = "exit_nonzero" =>
                      scan_ret'.res.error.text =
                         <<"yt-dlp a échoué: ">> \o FromUtf8Lossy(why.stderr)]_vars

\* C21 witness: a call for a url whose entry has expired ended with a non-zero
\* exit and returned the error with the standard-error text
C21_FailedOverExpiredEntry ==
    /\ scan_ret.op = "scan"
    /\ ~scan_ret.res.ok
    /\ scan_ret.res.error.kind = "exit_nonzero"
    /\ Len(scan_ret.res.error.text) = 3
    /\ scan_ret.url \in DOMAIN scan_cache
    /\ now - scan_cache[scan_ret.url].timestamp >= CACHE_TICKS
    /\ Len(scan_cache[scan_ret.url].videos) > 0

\* the lines of an output that are videos, in the order of the output
ValidLines(output) == SelectSeq(output, LAMBDA line : line \in VIDEO_LINES)

\* C22: whatever mix of valid, malformed and blank lines yt-dlp wrote before
\* exiting zero, the call succeeds and returns exactly the records of the valid
\* lines, in output order.
C22_ValidLinesReturned ==
    (scan_ret.op = "scan" /\ scan_ret.invoked /\ scan_ret.res.ok) =>
        /\ scan_ret.output \in OUTPUTS
        /\ scan_ret.res.videos = ValidLines(scan_ret.output)

\* C22 witness: an output of two valid lines, a blank and a malformed one gave
\* the two valid records
C22_TwoOfFourLines ==
    /\ scan_ret.op = "scan"
    /\ scan_ret.invoked
    /\ scan_ret.res.ok
    /\ Len(scan_ret.output) = 4
    /\ \E n \in 1..4 : scan_ret.output[n] = Malformed
    /\ scan_ret.res.videos = <<[id |-> "b"], [id |-> "a"]>>

\* C23: a call that missed the cache and succeeds has, when it returns, stored
\* the list it returns, an empty one included, under the normalized url with the
\* timestamp of that moment, and has rewritten the snapshot from the map: the
\* cached list of the url equals the returned list.
C23_ReturnedListIsCached ==
    (scan_ret.op = "scan" /\ scan_ret.invoked /\ scan_ret.res.ok) =>
        /\ NormalizeUrl(scan_ret.url) = scan_ret.url
        /\ scan_ret.url \in DOMAIN scan_cache
        /\ scan_cache[scan_ret.url] = [videos |-> scan_ret.res.videos, timestamp |-> now]
        /\ ScanLookup(scan_cache, scan_ret.url, now) = Some(scan_ret.res.videos)
        /\ scan_ret.saved = "written" =>
              /\ scan_file = FileJson(SerializeScanCache(scan_cache, now))
              /\ <<scan_ret.url, scan_ret.res.videos, 0>> \in scan_file.pairs

\* C23 witness: a call returned an empty list and the cache and the snapshot hold
\* the empty list under its url
C23_EmptyListStored ==
    /\ scan_ret.op = "scan"
    /\ scan_ret.invoked
    /\ scan_ret.res.ok
    /\ scan_ret.res.videos = << >>
    /\ scan_ret.saved = "written"
    /\ scan_cache[scan_ret.url].videos = << >>
    /\ <<scan_ret.url, << >>, 0>> \in scan_file.pairs
    /\ now > 0

(***************************************************************************)
(* More claims about is_video_downloaded                                   *)
(***************************************************************************)
\* C24: is_video_downloaded with an absent target duration returns absent at
\* once: it reads no directory, probes no file and leaves the file-duration index
\* as it was, whatever files exist locally.
C24_AbsentTargetReadsNothing ==
    (local_ret.op = "is_video_downloaded" /\ ~local_ret.duration.some) =>
        /\ local_ret.res = None
        /\ local_ret.read = << >>
        /\ local_ret.probed = << >>
        /\ file_durations_cache = local_ret.index_before

\* C24 witness: a call without target duration returned absent while every root
\* holds files, one of them already in the index
C24_AbsentTargetOverFiles ==
    /\ local_ret.op = "is_video_downloaded"
    /\ ~local_ret.duration.some
    /\ local_ret.res = None
    /\ \A r \in ROOTS : chan_dir[r].some /\ Len(chan_dir[r].val) > 0
    /\ DOMAIN file_durations_cache # {}
    /\ \E p \in FilePositions : PathAt(p) \notin DOMAIN file_durations_cache

\* the regular files ffprobe cannot measure and the index did not hold
UnmeasuredFiles(index) ==
    {p \in FilePositions : ~ObtainedDuration(p, index).some}

\* C25: a probe failure on a file does not abort the duplicate check. The file is
\* skipped and nothing is memoized for it; a matching file that comes after it, in
\* the same directory or under a later root, is still returned; and when nothing
\* matches, every root's channel directory was read and every regular file not in
\* the index was probed. A root without channel directory is skipped likewise.
C25_ProbeFailureSkipsOneFile ==
    (local_ret.op = "is_video_downloaded" /\ local_ret.duration.some) =>
        LET before == local_ret.index_before
            matches == MatchingFiles(local_ret.duration.val, before)
        IN  /\ \A p \in UnmeasuredFiles(before) : PathAt(p) \notin DOMAIN file_durations_cache
            /\ matches # {} => local_ret.res.some
            /\ matches = {} =>
                  /\ local_ret.res = None
                  /\ local_ret.read = [r \in ROOTS |-> r]
                  /\ \A p \in FilePositions :
                        PathAt(p) \notin DOMAIN before =>
                           \E n \in DOMAIN local_ret.probed : local_ret.probed[n] = PathAt(p)

\* C25 witness: the first root has no channel directory, a later root holds a file
\* ffprobe cannot measure and, after it, a matching file: that file was returned,
\* the unmeasured one was probed and is not in the index
C25_MatchAfterFailure ==
    /\ local_ret.op = "is_video_downloaded"
    /\ local_ret.duration.some
    /\ ~chan_dir[1].some
    /\ \E p \in UnmeasuredFiles(local_ret.index_before), q \in FilePositions :
          /\ p[1] = q[1]
          /\ p[2] < q[2]
          /\ local_ret.res = Some(PathAt(q))
          /\ \E n \in DOMAIN local_ret.probed : local_ret.probed[n] = PathAt(p)
          /\ PathAt(p) \notin DOMAIN file_durations_cache

\* C26: ffprobe is run on a path only when the file-duration index has no entry
\* for it; an entry, once made, is used by every later is_video_downloaded
\* instead of a probe, and is never removed or changed while the process lives.
C26_IndexIsWriteOnce ==
    [][/\ \A path \in DOMAIN file_durations_cache :
             /\ path \in DOMAIN file_durations_cache'
             /\ file_durations_cache'[path] = file_durations_cache[path]
       /\ local_ret'.op = "is_video_downloaded" =>
             /\ \A n \in DOMAIN local_ret'.probed :
                   local_ret'.probed[n] \notin DOMAIN file_durations_cache
             /\ \A path \in (DOMAIN file_durations_cache') \ (DOMAIN file_durations_cache) :
                   \E n \in DOMAIN local_ret'.probed : local_ret'.probed[n] = path]_vars

\* C26 witness: a file in the index was replaced by one of the target's duration;
\* the next call did not probe it, used the stored duration and found no match
C26_StoredValueUsed ==
    /\ local_ret.op = "is_video_downloaded"
    /\ local_ret.duration.some
    /\ local_ret.res = None
    /\ \E p \in FilePositions :
          /\ PathAt(p) \in DOMAIN local_ret.index_before
          /\ chan_dir[p[1]].val[p[2]].probe = Some(local_ret.duration.val)
          /\ file_durations_cache[PathAt(p)] # local_ret.duration.val
          /\ \A n \in DOMAIN local_ret.probed : local_ret.probed[n] # PathAt(p)

(***************************************************************************)
(* Claims about the monitoring of a download                               *)
(***************************************************************************)
\* the URLs of the videos a listing holds
ListedUrls == UNION { {l[n].url : n \in DOMAIN l} : l \in LISTINGS }

\* C27: the monitoring of every accepted download ends, and the URL then leaves
\* downloading_videos: no video stays Downloading forever, not even when the
\* download fails and the destination file never appears.
C27_MonitoringEnds ==
    \A url \in ListedUrls :
        (url \in downloading_videos) ~> (url \notin downloading_videos)

\* the progress of a download as the caller holds it: the counter of the polling
\* loop, and the value of the dialog when the dialog is on the download's video
CallerProgress(url) ==
    { monitors[m].progress : m \in { k \in DOMAIN monitors :
                                        /\ monitors[k].pc = "polling"
                                        /\ monitors[k].video_url = url } }
    \cup { download_video.val.progress : d \in { x \in {download_video} :
                                                    x.some /\ x.val.url = url } }

\* C28: a download has one progress value, the one the queue holds for its task:
\* whatever the caller holds or shows for a task in progress equals the queue's
\* progress field of that task.
C28_SingleProgressValue ==
    \A t \in DOMAIN tasks :
        ~Terminal(tasks[t].state) =>
            \A p \in CallerProgress(tasks[t].video_url) : p = queue_progress[t]

\* C29: add_download is only asked for a video whose status is NotDownloaded:
\* when confirm_download spawns the task that calls add_download, the URL is not
\* in downloading_videos and no row of the list shows that URL as Downloaded
\* or Downloading.
C29_OnlyNotDownloadedSubmitted ==
    [][(ui_event'.op = "confirm_download" /\ download_video.some) =>
          /\ download_video.val.url \notin downloading_videos
          /\ \A i \in DOMAIN videos :
                videos[i].url = download_video.val.url
                  => videos[i].status = "NotDownloaded"]_vars

\* C30: no subprocess is run and no file or directory is touched on the thread
\* of the window: the handlers and the closures of this.update make none of
\* these calls, so that no action of the user waits for one.
C30_NoIoOnUiThread == ui_thread_io = {}

(***************************************************************************)
(* Claims about the list of channels and the selection                     *)
(***************************************************************************)
\* C31: whenever a channel is selected and no scan is in flight, the videos of
\* the list are videos of the selected channel: a scan that completes after the
\* user went back or selected another channel does not overwrite the list.
C31_ListOfSelectedChannel ==
    (selected_channel.some /\ scans = << >>) =>
        \A i \in DOMAIN videos : videos[i].url[1] = channels[selected_channel.val].name

\* C33: loading follows the scan of the current selection: while the scan
\* started for the channel now selected is in flight loading is true, and the
\* completion of a scan started for an earlier selection does not clear it.
C33_LoadingWhileCurrentScan ==
    (\E k \in DOMAIN scans : scans[k].current) => loading

\* C34: the selection is None or the index of a channel of the list; deleting
\* the selected channel clears the selection and the video list, deleting
\* another channel leaves the selection on the same channel record (its index
\* one less when the deleted channel stood before it), and a deletion at an
\* index past the list changes nothing.
C34_SelectionStaysValid ==
    /\ selected_channel.some => selected_channel.val \in DOMAIN channels
    /\ ui_event.op = "delete_channel" =>
          LET before == ui_event.channels_before
              sel == ui_event.selected_before
              index == ui_event.index
          IN  IF index \notin DOMAIN before
              THEN channels = before /\ selected_channel = sel
              ELSE /\ channels = RemoveAt(before, index)
                   /\ sel = Some(index) => selected_channel = None /\ videos = << >>
                   /\ (sel.some /\ sel.val # index) =>
                         /\ selected_channel.some
                         /\ channels[selected_channel.val] = before[sel.val]
                         /\ selected_channel.val =
                               IF index < sel.val THEN sel.val - 1 ELSE sel.val
                   /\ sel = None => selected_channel = None

\* C34 witness: the second channel was selected, with its videos listed, when
\* the first was deleted
C34_DeletedBeforeSelection ==
    /\ ui_event.op = "delete_channel"
    /\ ui_event.selected_before.some
    /\ ui_event.index < ui_event.selected_before.val
    /\ selected_channel.some
    /\ videos # << >>

\* no two channels of the list have the same url
NoDuplicateUrls(list) == \A i, j \in DOMAIN list : list[i].url = list[j].url => i = j

\* the add or delete just made changed the list
ListChanged ==
    \/ ui_event.op = "add_channel" /\ ui_event.changed
    \/ ui_event.op = "delete_channel" /\ ui_event.channels_before # channels

\* C36 as stated: no two channels share a url, and after every add or delete
\* that changes the list the channel file holds exactly the in-memory list.
C36_FileHoldsList ==
    /\ NoDuplicateUrls(channels)
    /\ ListChanged => channels_file = FileJson(channels)

\* C36, amended: add_channel_from_url appends a channel exactly when the
\* platform is recognized, a name can be extracted and no channel has the same
\* url, and otherwise leaves the list and the file as they were; no two channels
\* share a url; an add or delete that changes the list rewrites the file with
\* the whole list when the write succeeds, and when the write fails the list
\* keeps the change while the file keeps what it held or is left unreadable.
C36_NoDuplicatesAndFileRewritten ==
    [][/\ NoDuplicateUrls(channels')
       /\ ui_event'.op = "add_channel" =>
             LET url == ui_event'.url
                 accepted == /\ PlatformFromUrl(url).some
                             /\ ExtractChannelName(url).some
                             /\ \A i \in DOMAIN channels : channels[i].url # url
             IN  /\ ui_event'.changed = accepted
                 /\ IF accepted
                    THEN /\ Len(channels') = Len(channels) + 1
                         /\ SubSeq(channels', 1, Len(channels)) = channels
                         /\ channels'[Len(channels')].url = url
                    ELSE channels' = channels /\ channels_file' = channels_file
       /\ (ui_event'.op \in {"add_channel", "delete_channel"} /\ channels' # channels) =>
             channels_file' = CASE ui_event'.outcome = "written" -> FileJson(channels')
                                [] ui_event'.outcome = "not_opened" -> channels_file
                                [] ui_event'.outcome = "cut_short" -> FileCorrupt]_vars

\* C36 witness: a URL that a channel of the list already has was added again,
\* and the list still holds that channel once
C36_DuplicateRefused ==
    /\ ui_event.op = "add_channel"
    /\ ~ui_event.changed
    /\ \E i \in DOMAIN channels : channels[i].url = ui_event.url
    /\ Len(channels) > 1

(***************************************************************************)
(* Claims about confirm_download                                           *)
(***************************************************************************)
\* the rows of the list but those of one URL
RowsNotOf(vs, url) == SelectSeq(vs, LAMBDA v : v.url # url)

\* C32: when add_download returns an error, the URL leaves downloading_videos
\* and the video's status is NotDownloaded again, the task ends without a
\* polling loop, the video can be clicked again, and no other video's status
\* or membership in downloading_videos changes.
C32_RollbackOnError ==
    [][(ui_event'.op = "add_download" /\ ~ui_event'.ok) =>
          LET url == ui_event'.video_url
          IN  /\ downloading_videos' = downloading_videos \ {url}
              /\ \A i \in DOMAIN videos' :
                    videos'[i].url = url => videos'[i].status # "Downloading"
              /\ \E i \in DOMAIN videos' :
                    videos'[i].url = url /\ videos'[i].status = "NotDownloaded"
              /\ Len(monitors') = Len(monitors) - 1
              /\ \A m \in DOMAIN monitors' :
                    monitors'[m].pc = "polling" =>
                       \E n \in DOMAIN monitors : monitors[n] = monitors'[m]
              /\ RowsNotOf(videos', url) = RowsNotOf(videos, url)
              /\ tasks' = tasks]_vars

\* C32 witness: the download tool could not be started for a video that was
\* marked Downloading; the mark is gone and the row can be clicked again
C32_RolledBack ==
    /\ ui_event.op = "add_download"
    /\ ~ui_event.ok
    /\ NonTerminal(ui_event.queue_before, ui_event.video_url) = {}
    /\ ui_event.video_url \notin downloading_videos
    /\ \E i \in DOMAIN videos :
          videos[i].url = ui_event.video_url /\ videos[i].status = "NotDownloaded"

\* the first row of the list with this URL
FirstRowOf(vs, url) ==
    {i \in DOMAIN vs : vs[i].url = url /\ \A j \in 1..(i - 1) : vs[j].url # url}

\* C35: confirm_download with an empty or blank file name, or with no storage
\* root, leaves downloading_videos, every status, the tasks and the open dialog
\* as they were; a confirm that passes the checks marks the video Downloading,
\* spawns exactly one task that calls add_download, and closes the dialog; and
\* nothing but such a confirm spawns one.
C35_ConfirmChecks ==
    [][/\ ConfirmDownload =>
             IF Trim(download_input.val) = << >> \/ ~BestStoragePath.ok
             THEN UNCHANGED <<downloading_videos, videos, download_input, download_video,
                              monitors, tasks>>
             ELSE LET url == download_video.val.url
                  IN  /\ downloading_videos' = downloading_videos \cup {url}
                      /\ \A i \in FirstRowOf(videos, url) :
                            videos'[i].status = "Downloading"
                      /\ RowsNotOf(videos', url) = RowsNotOf(videos, url)
                      /\ Len(videos') = Len(videos)
                      /\ monitors' = Append(monitors, monitors'[Len(monitors')])
                      /\ monitors'[Len(monitors')].pc = "add_download"
                      /\ monitors'[Len(monitors')].video_url = url
                      /\ download_input' = None
                      /\ download_video' = None
                      /\ tasks' = tasks
       /\ Len(monitors') > Len(monitors) =>
             /\ download_input.some /\ download_video.some
             /\ Trim(download_input.val) # << >>
             /\ BestStoragePath.ok]_vars

\* C35 witness: a confirm with a file name typed found no storage root; the
\* dialog is still open and nothing is marked
C35_RefusedWithoutStorage ==
    /\ ui_thread_io = {"exists"}
    /\ ui_event = NoReturn
    /\ download_input.some
    /\ Trim(download_input.val) # << >>
    /\ download_video.some
    /\ download_video.val.url \notin downloading_videos

(***************************************************************************)
(* Claims about the start of the program                                   *)
(***************************************************************************)
\* C37: loading the scanner's snapshot cannot abort the program: whatever
\* elapsed seconds the snapshot holds, also more than the clock has counted
\* since its origin, VideoScanner::new ends with a cache, never with a panic.
C37_LoadNeverPanics ==
    (component = "start" /\ scan_ret.op = "new") => ~scan_ret.panicked

====
